---------------------------- MODULE Spec2Model ----------------------------
(***************************************************************************)
(* A model of the trait-DNA codec and evolution engine of AIGM             *)
(* (core/dna_generator.py, core/dna_decoder.py).                           *)
(*                                                                         *)
(* Conventions.  A DNA string of the categorical codec is a sequence of    *)
(* one-character strings; every other Python str is a TLA+ string.  A      *)
(* Python dict is a sequence of records [k |-> key, v |-> value] in        *)
(* insertion order.  A call that can raise returns a record                *)
(* [exc |-> name of the exception or "none", val |-> the value returned]. *)
(***************************************************************************)
EXTENDS Integers, Sequences, FiniteSets, TLC

(***************************************************************************)
(* Python built-ins used by the code.                                      *)
(***************************************************************************)

Ok(v) == [exc |-> "none", val |-> v]

Raise(e) == [exc |-> e, val |-> <<>>]

Min(a, b) == IF a < b THEN a ELSE b

Max(a, b) == IF a > b THEN a ELSE b

\* a list given element by element, as a tuple (TLC then computes each element once)
List(s) == s \o <<>>

\* dict: key in d
Has(d, key) == \E i \in 1..Len(d) : d[i].k = key

\* dict: d[key], for a key that is present
Get(d, key) == d[CHOOSE i \in 1..Len(d) : d[i].k = key].v

\* dict: d[key] = value (an existing key keeps its position)
Put(d, key, value) ==
    IF Has(d, key)
    THEN List([i \in 1..Len(d) |-> IF d[i].k = key THEN [k |-> key, v |-> value] ELSE d[i]])
    ELSE Append(d, [k |-> key, v |-> value])

\* A heap is the list of the dicts allocated so far and a reference is a position
\* in it: an assignment "b = a" of a dict shares the reference of a.
\* the reference of a itself in place of a copy
CopyDict_Alias(heap, ref) == [heap |-> heap, ref |-> ref]

\* a.copy(): a new dict with the items of a
CopyDict(heap, ref) == [heap |-> Append(heap, heap[ref]), ref |-> Len(heap) + 1]

\* the heap once the dict at ref holds items
Store(heap, ref, items) == [heap EXCEPT ![ref] = items]

\* the heap once the statements that computed written, if none raised, have
\* assigned its items into the dict at ref
WrittenBy(heap, ref, written) ==
    IF written.exc = "none" THEN Store(heap, ref, written.val) ELSE heap

\* dict: list(d.keys())
Keys(d) == List([i \in 1..Len(d) |-> d[i].k])

\* the set of elements of a list
Range(s) == {s[i] : i \in 1..Len(s)}

\* list: s[i] with Python's 0-based index, negative indices counted from the end
PyIndex(s, i) ==
    IF i >= 0 /\ i < Len(s) THEN Ok(s[i + 1])
    ELSE IF i < 0 /\ i >= 0 - Len(s) THEN Ok(s[Len(s) + i + 1])
    ELSE Raise("IndexError")

\* list.index(x): 0-based position of the first occurrence
ListIndex(s, x) ==
    LET at == {i \in 1..Len(s) : s[i] = x}
    IN  IF at = {} THEN Raise("ValueError")
        ELSE Ok((CHOOSE i \in at : \A j \in at : i <= j) - 1)

\* str * n
RECURSIVE Rep(_, _)
Rep(s, n) == IF n <= 0 THEN <<>> ELSE s \o Rep(s, n - 1)

\* the fill placed before the string, as str.rjust does
Ljust_Left(s, width, fill) == Rep(<<fill>>, width - Len(s)) \o s

\* str.ljust(width, fill)
Ljust(s, width, fill) == s \o Rep(<<fill>>, width - Len(s))

\* s[:n]
Take(s, n) == SubSeq(s, 1, Min(n, Len(s)))

\* s[a:b] with 0-based a <= b, clipped to the string
Slice(s, a, b) == SubSeq(s, Min(a, Len(s)) + 1, Min(b, Len(s)))

HexChars == <<"0", "1", "2", "3", "4", "5", "6", "7", "8", "9",
              "a", "b", "c", "d", "e", "f">>

UpperHexChars == <<"0", "1", "2", "3", "4", "5", "6", "7", "8", "9",
                   "A", "B", "C", "D", "E", "F">>

IsHexDigit(c) == c \in Range(HexChars) \/ c \in Range(UpperHexChars)

HexDigitValue(c) ==
    IF c \in Range(HexChars) THEN ListIndex(HexChars, c).val
    ELSE ListIndex(UpperHexChars, c).val

IsSpace(c) == c \in {" ", "\t", "\n"}

RECURSIVE LStrip(_)
LStrip(s) == IF s # <<>> /\ IsSpace(Head(s)) THEN LStrip(Tail(s)) ELSE s

RECURSIVE RStrip(_)
RStrip(s) ==
    IF s # <<>> /\ IsSpace(s[Len(s)]) THEN RStrip(SubSeq(s, 1, Len(s) - 1)) ELSE s

\* the digits of an int literal: hex digits, single underscores only between digits
DigitsWellFormed(t) ==
    /\ t # <<>>
    /\ \A i \in 1..Len(t) : IsHexDigit(t[i]) \/ t[i] = "_"
    /\ t[1] # "_"
    /\ t[Len(t)] # "_"
    /\ \A i \in 1..(Len(t) - 1) : ~(t[i] = "_" /\ t[i + 1] = "_")

RECURSIVE DigitsValue(_, _)
DigitsValue(t, acc) ==
    IF t = <<>> THEN acc
    ELSE IF Head(t) = "_" THEN DigitsValue(Tail(t), acc)
    ELSE DigitsValue(Tail(t), 16 * acc + HexDigitValue(Head(t)))

\* int(s, 16): surrounding whitespace, a sign, an optional 0x prefix, digits
IntBase16(s) ==
    LET t == RStrip(LStrip(s))
        signed == t # <<>> /\ t[1] \in {"+", "-"}
        u == IF signed THEN Tail(t) ELSE t
        prefixed == Len(u) >= 2 /\ u[1] = "0" /\ u[2] \in {"x", "X"}
        w == IF prefixed THEN SubSeq(u, 3, Len(u)) ELSE u
        x == IF prefixed /\ w # <<>> /\ w[1] = "_" THEN Tail(w) ELSE w
    IN  IF DigitsWellFormed(x)
        THEN Ok(IF signed /\ t[1] = "-" THEN 0 - DigitsValue(x, 0) ELSE DigitsValue(x, 0))
        ELSE Raise("ValueError")

RECURSIVE HexDigits(_)
HexDigits(n) == IF n < 16 THEN <<HexChars[n + 1]>> ELSE HexDigits(n \div 16) \o <<HexChars[(n % 16) + 1]>>

RECURSIVE DecDigits(_)
DecDigits(n) ==
    IF n < 10 THEN <<HexChars[n + 1]>> ELSE DecDigits(n \div 10) \o <<HexChars[(n % 10) + 1]>>

\* format(n, '02d'): the index written in decimal
Format02d(n) == LET h == DecDigits(n) IN Rep(<<"0">>, 2 - Len(h)) \o h

\* format(n, '02x') for n >= 0
Format02x(n) == LET h == HexDigits(n) IN Rep(<<"0">>, 2 - Len(h)) \o h

(***************************************************************************)
(* Python str operations; a str is a TLA+ string, positions counted from 1 *)
(***************************************************************************)

\* s[i - 1], for a position that exists
CharAt(s, i) == SubSeq(s, i, i)

\* s[i - 1:]
From(s, i) == SubSeq(s, i, Len(s))

\* s.startswith(prefix)
StartsWith(s, prefix) == Len(s) >= Len(prefix) /\ SubSeq(s, 1, Len(prefix)) = prefix

\* s.find(sub, i - 1) + 1: the first position >= i where sub occurs, 0 when there is none
Find(s, sub, i) ==
    LET at == {j \in i..(Len(s) - Len(sub) + 1) : SubSeq(s, j, j + Len(sub) - 1) = sub}
    IN  IF at = {} THEN 0 ELSE CHOOSE j \in at : \A k \in at : j <= k

\* sub in s
Contains(s, sub) == Find(s, sub, 1) # 0

\* s.split(sep, maxsplit) read from position i on; maxsplit = -1 for no limit
RECURSIVE SplitFrom(_, _, _, _)
SplitFrom(s, sep, i, maxsplit) ==
    LET at == Find(s, sep, i)
    IN  IF at = 0 \/ maxsplit = 0 THEN <<From(s, i)>>
        ELSE <<SubSeq(s, i, at - 1)>> \o SplitFrom(s, sep, at + Len(sep), maxsplit - 1)

\* s.split(sep)
Split(s, sep) == SplitFrom(s, sep, 1, -1)

\* s.split(sep, 1)
SplitOnce(s, sep) == SplitFrom(s, sep, 1, 1)

\* sep.join(parts)
RECURSIVE StrJoin(_, _)
StrJoin(sep, parts) ==
    IF parts = <<>> THEN ""
    ELSE IF Len(parts) = 1 THEN parts[1]
    ELSE parts[1] \o sep \o StrJoin(sep, Tail(parts))

DecimalChars == "0123456789"

\* c.isdigit() for an ASCII character
IsDigit(c) == Find(DecimalChars, c, 1) # 0

\* int(c) for a decimal digit c
DigitValue(c) == Find(DecimalChars, c, 1) - 1

\* str(n) for n >= 0
RECURSIVE StrNat(_)
StrNat(n) ==
    IF n < 10 THEN CharAt(DecimalChars, n + 1)
    ELSE StrNat(n \div 10) \o CharAt(DecimalChars, (n % 10) + 1)

\* str(n), what an f-string writes for an int
Str(n) == IF n < 0 THEN "-" \o StrNat(-n) ELSE StrNat(n)

UpperLetters == "ABCDEFGHIJKLMNOPQRSTUVWXYZ"

LowerLetters == "abcdefghijklmnopqrstuvwxyz"

\* s.lower()
RECURSIVE Lower(_)
Lower(s) ==
    IF s = "" THEN ""
    ELSE LET at == Find(UpperLetters, CharAt(s, 1), 1)
         IN  (IF at = 0 THEN CharAt(s, 1) ELSE CharAt(LowerLetters, at)) \o Lower(From(s, 2))

(***************************************************************************)
(* Trait schema: WorldDNA.COMPONENTS and NPCPersonalityDNA.COMPONENTS.     *)
(***************************************************************************)

WorldCOMPONENTS == <<
    [k |-> "terrain", v |-> <<
        "mountains", "forests", "plains", "desert", "arctic", "coastal", "islands", "jungle",
        "swamp", "underground", "mixed">>],
    [k |-> "climate", v |-> <<"tropical", "arid", "temperate", "cold", "arctic", "varied">>],
    [k |-> "resources", v |-> <<"abundant", "balanced", "scarce", "depleted", "contested">>],
    [k |-> "hazards", v |-> <<"safe", "dangerous", "deadly">>],
    [k |-> "government", v |-> <<
        "monarchy", "democracy", "oligarchy", "republic", "theocracy", "anarchy", "feudal",
        "tribal", "empire", "dictatorship", "federation">>],
    [k |-> "stability", v |-> <<
        "stable", "unstable", "recovering", "declining", "fractured", "chaotic">>],
    [k |-> "factions", v |-> <<"united", "competing", "hostile", "hidden", "numerous", "rare">>],
    [k |-> "tech_level", v |-> <<
        "primitive", "medieval", "renaissance", "industrial", "modern", "futuristic",
        "post-apocalyptic", "varied">>],
    [k |-> "magic", v |-> <<
        "abundant", "common", "restricted", "rare", "forgotten", "forbidden", "none">>],
    [k |-> "supernatural", v |-> <<
        "integral", "common", "hidden", "rare", "feared", "worshipped", "none">>],
    [k |-> "conflict", v |-> <<
        "peace", "cold_war", "skirmishes", "open_war", "recovery", "ancient_grudges">>],
    [k |-> "threats", v |-> <<
        "monsters", "invaders", "natural", "political", "supernatural", "internal", "minimal">>],
    [k |-> "danger_level", v |-> <<"safe", "moderate", "dangerous", "deadly", "apocalyptic">>],
    [k |-> "culture_type", v |-> <<
        "unified", "diverse", "segregated", "hierarchical", "tribal", "cosmopolitan">>],
    [k |-> "values", v |-> <<
        "honor", "wealth", "knowledge", "tradition", "progress", "harmony", "power", "faith">>],
    [k |-> "openness", v |-> <<"xenophobic", "cautious", "diplomatic", "welcoming", "integrated">>],
    [k |-> "special_features", v |-> <<
        "ancient_ruins", "magical_anomalies", "unique_ecosystems", "lost_technology",
        "prophecies", "artifacts_of_power", "planar_connections", "divine_presence",
        "hidden_societies", "mysterious_phenomena", "none">>]
    >>

NPCCOMPONENTS == <<
    [k |-> "extraversion", v |-> <<
        "highly_extraverted", "moderately_extraverted", "neutral", "moderately_introverted",
        "highly_introverted">>],
    [k |-> "openness", v |-> <<
        "very_open", "somewhat_open", "balanced", "somewhat_traditional", "very_traditional">>],
    [k |-> "conscientiousness", v |-> <<
        "highly_conscientious", "somewhat_conscientious", "balanced", "somewhat_careless",
        "very_careless">>],
    [k |-> "agreeableness", v |-> <<
        "very_agreeable", "somewhat_agreeable", "neutral", "somewhat_disagreeable",
        "very_disagreeable">>],
    [k |-> "neuroticism", v |-> <<
        "very_neurotic", "somewhat_neurotic", "emotionally_stable", "resilient",
        "extremely_resilient">>],
    [k |-> "morality", v |-> <<
        "lawful_good", "neutral_good", "chaotic_good", "lawful_neutral", "true_neutral",
        "chaotic_neutral", "lawful_evil", "neutral_evil", "chaotic_evil">>],
    [k |-> "primary_motivation", v |-> <<
        "power", "wealth", "knowledge", "fame", "revenge", "love", "duty", "freedom",
        "survival", "pleasure", "ideology", "curiosity", "faith">>],
    [k |-> "secondary_motivation", v |-> <<
        "power", "wealth", "knowledge", "fame", "revenge", "love", "duty", "freedom",
        "survival", "pleasure", "ideology", "curiosity", "faith", "none">>],
    [k |-> "ambition_level", v |-> <<
        "obsessive", "highly_ambitious", "moderately_ambitious", "content", "unambitious">>],
    [k |-> "social_status", v |-> <<
        "outcast", "low", "average", "respected", "elite", "legendary">>],
    [k |-> "loyalty", v |-> <<
        "blindly_loyal", "generally_loyal", "conditional", "self_serving", "treacherous">>],
    [k |-> "humor", v |-> <<
        "none", "dry", "sarcastic", "silly", "dark", "witty", "self_deprecating">>],
    [k |-> "confidence", v |-> <<
        "extremely_insecure", "somewhat_insecure", "average", "confident", "overconfident">>],
    [k |-> "major_flaw", v |-> <<
        "arrogance", "greed", "cowardice", "paranoia", "naivety", "jealousy", "addiction",
        "dishonesty", "wrath", "prejudice", "obsession", "stubbornness", "indecisiveness",
        "none">>],
    [k |-> "minor_quirk", v |-> <<
        "talks_to_self", "uses_big_words", "fidgets", "always_hungry", "collects_trinkets",
        "afraid_of_something_common", "laughs_inappropriately", "formal_speech",
        "constant_jokes", "specific_ritual", "whistles_tunes",
        "refers_to_self_in_third_person", "none">>],
    [k |-> "speech_complexity", v |-> <<
        "very_simple", "straightforward", "average", "eloquent", "elaborate">>],
    [k |-> "truthfulness", v |-> <<
        "pathological_liar", "deceptive", "avoids_direct_lies", "honest", "brutally_honest">>],
    [k |-> "talkativeness", v |-> <<
        "silent", "taciturn", "average", "talkative", "extremely_talkative">>],
    [k |-> "intelligence", v |-> <<
        "very_low", "below_average", "average", "above_average", "exceptional", "genius">>],
    [k |-> "education", v |-> <<
        "none", "rudimentary", "average", "well_educated", "expert", "scholarly">>],
    [k |-> "wisdom", v |-> <<"foolish", "naive", "average_wisdom", "wise", "sage_like">>],
    [k |-> "default_attitude", v |-> <<
        "hostile", "suspicious", "cautious", "neutral", "friendly", "helpful">>],
    [k |-> "attachment_style", v |-> <<"avoidant", "anxious", "secure", "dismissive", "fearful">>],
    [k |-> "bravery", v |-> <<"cowardly", "cautious", "average", "brave", "reckless">>],
    [k |-> "combat_style", v |-> <<
        "avoids_all_combat", "defensive", "balanced", "aggressive", "berserker", "tactical",
        "dirty_fighter">>],
    [k |-> "secret", v |-> <<
        "none", "hidden_identity", "dark_past", "secret_knowledge", "hidden_agenda",
        "hidden_power", "forbidden_relationship", "criminal_history", "traumatic_experience",
        "prophecy", "conspiracy">>],
    [k |-> "depth_trait", v |-> <<
        "exactly_as_appears", "more_complex", "facade_hiding_opposite", "troubled_past",
        "secret_agenda", "none">>]
    >>


\* cls.COMPONENTS
COMPONENTS(cls) == IF cls = "WorldDNA" THEN WorldCOMPONENTS ELSE NPCCOMPONENTS

Classes == {"WorldDNA", "NPCPersonalityDNA"}

(***************************************************************************)
(* The PRNG.  random.choice(seq) with draw r returns seq[r mod len(seq)];  *)
(* random.random() returns a number of tenths in 0..9, a rate is a number  *)
(* of tenths in 0..10.                                                     *)
(***************************************************************************)

RandomChoice(seq, r) == seq[(r % Len(seq)) + 1]

(***************************************************************************)
(* Categorical codec: _encode_dna, _decode_dna, _generate_random_traits.   *)
(***************************************************************************)

\* the first exception raised by a list of results, or "none"
\* the statement after a call that may raise: an exception propagates to the caller
Then(r, F(_)) == IF r.exc # "none" THEN r ELSE F(r.val)

FirstExc(rs) ==
    IF \E i \in 1..Len(rs) : rs[i].exc # "none"
    THEN rs[CHOOSE i \in 1..Len(rs) : rs[i].exc # "none" /\ \A j \in 1..(i - 1) : rs[j].exc = "none"].exc
    ELSE "none"

\* a loop whose passes may raise: its values, or the first exception
Collect(rs) ==
    IF FirstExc(rs) # "none" THEN Raise(FirstExc(rs))
    ELSE Ok(List([i \in 1..Len(rs) |-> rs[i].val]))

RECURSIVE Join(_)
Join(ss) == IF ss = <<>> THEN <<>> ELSE Head(ss) \o Join(Tail(ss))

\* one pass of the loop of _encode_dna: the hex token of (component, value)
EncodeComponent(cls, component, value) ==
    IF ~Has(COMPONENTS(cls), component) THEN Raise("KeyError")
    ELSE Then(ListIndex(Get(COMPONENTS(cls), component), value),
              LAMBDA value_index : Ok(Format02x(value_index)))

encode_dna(cls, traits) ==
    Then(Collect([i \in 1..Len(traits) |-> EncodeComponent(cls, traits[i].k, traits[i].v)]),
         LAMBDA components : Ok(Join(components)))

\* [dna_string[i:i+2] for i in range(0, len(dna_string), 2)]
Chunks(dna_string) ==
    List([j \in 1..((Len(dna_string) + 1) \div 2) |-> Slice(dna_string, 2 * (j - 1), 2 * j)])

\* the index int(chunk, 16) used as it is, not reduced modulo the domain size
DecodeIndex_NoModulo(possible_values, index) ==
    IF index.exc = "ValueError" THEN PyIndex(possible_values, 0)
    ELSE PyIndex(possible_values, index.val)

\* the try/except of _decode_dna on index = int(chunk, 16), which may have raised
DecodeIndex(possible_values, index) ==
    IF index.exc = "ValueError" THEN PyIndex(possible_values, 0)
    ELSE PyIndex(possible_values, index.val % Len(possible_values))

\* the value a chunk selects in a domain
DecodeChunk(possible_values, chunk) == DecodeIndex(possible_values, IntBase16(chunk))

\* the loop of _decode_dna over the components, on the chunks of the padded string
DecodeChunks(cls, chunks) ==
    Then(Collect([i \in 1..Len(COMPONENTS(cls)) |->
                    IF i - 1 < Len(chunks)
                    THEN DecodeChunk(COMPONENTS(cls)[i].v, chunks[i])
                    ELSE PyIndex(COMPONENTS(cls)[i].v, 0)]),
         LAMBDA values : Ok(List([i \in 1..Len(COMPONENTS(cls)) |->
                                    [k |-> COMPONENTS(cls)[i].k, v |-> values[i]]])))

decode_dna(cls, dna_string) ==
    LET expected_length == Len(Keys(COMPONENTS(cls))) * 2
    IN  DecodeChunks(cls, Chunks(IF Len(dna_string) # expected_length
                                 THEN Take(Ljust(dna_string, expected_length, "0"), expected_length)
                                 ELSE dna_string))

\* the rule "secondary motivation isn't the same as primary"
EnsureSecondary(traits) ==
    IF ~Has(traits, "secondary_motivation") \/ ~Has(traits, "primary_motivation")
    THEN Raise("KeyError")
    ELSE IF Get(traits, "secondary_motivation") = Get(traits, "primary_motivation")
    THEN Ok(Put(traits, "secondary_motivation", "none"))
    ELSE Ok(traits)

\* WorldDNA._generate_random_traits, one draw per component
World_generate_random_traits(draws) ==
    List([i \in 1..Len(WorldCOMPONENTS) |->
        [k |-> WorldCOMPONENTS[i].k, v |-> RandomChoice(WorldCOMPONENTS[i].v, draws[i])]])

\* NPCPersonalityDNA._generate_random_traits
NPC_generate_random_traits(draws) ==
    EnsureSecondary(
        List([i \in 1..Len(NPCCOMPONENTS) |->
            [k |-> NPCCOMPONENTS[i].k, v |-> RandomChoice(NPCCOMPONENTS[i].v, draws[i])]])).val

generate_random_traits(cls, draws) ==
    IF cls = "WorldDNA" THEN World_generate_random_traits(draws)
    ELSE NPC_generate_random_traits(draws)


(***************************************************************************)
(* Bounds of the model: the strings handed to the decoder and the draws    *)
(* of the PRNG.                                                            *)
(***************************************************************************)

\* number of 2-character chunks of a complete DNA string of cls
NumComponents(cls) == Len(COMPONENTS(cls))

\* chunks placed in the two-chunk window of an input string
WindowChunks == {<<"0", "0">>, <<"0", "1">>, <<"0", "d">>, <<"f", "f">>,
                 <<"g", "0">>, <<"-", "1">>, <<" ", "2">>}

\* the chunk repeated outside the window
FillChunks == {<<"0", "0">>, <<"F", "_">>}

\* number of fill chunks before the window
Leads == {0, 6}

\* the chunk after the last component's chunk
TailChunks == {<<"0", "0">>, <<"0", "1">>, <<"z", "z">>}

\* input lengths: 0..MaxShort, and around the expected length up to MaxExtra more
MaxShort == 3

MaxExtra == 2

InputLengths(cls) ==
    (0..MaxShort) \cup ((2 * NumComponents(cls) - MaxShort)..(2 * NumComponents(cls) + MaxExtra))

InputStrings(cls) ==
    {Take(Rep(f, l) \o w1 \o w2 \o Rep(f, NumComponents(cls) - l - 2) \o t \o Rep(t, MaxExtra), n) :
        f \in FillChunks, l \in Leads, w1 \in WindowChunks, w2 \in WindowChunks,
        t \in TailChunks, n \in InputLengths(cls)}

\* the two positions (1-based, in dict order) whose draws vary freely: the
\* motivations of an NPC, terrain and climate of a world; the others share one draw
FreeA(cls) == IF cls = "WorldDNA" THEN 1 ELSE 7

FreeB(cls) == IF cls = "WorldDNA" THEN 2 ELSE 8

\* a draw of random.choice is one of 0..MaxDraw
MaxDraw == 1

ChoiceDraws(cls, n) ==
    {[i \in 1..n |-> IF i = FreeA(cls) THEN a ELSE IF i = FreeB(cls) THEN b ELSE c] :
        a \in 0..MaxDraw, b \in 0..MaxDraw, c \in 0..MaxDraw}

(***************************************************************************)
(* The codec as pure functions: a caller decodes a string, generates a     *)
(* vector, encodes the vector it holds and decodes the result.            *)
(***************************************************************************)

VARIABLES ccls, cin, cstr, cvec, cenc, cop

codecVars == <<ccls, cin, cstr, cvec, cenc, cop>>

NoVector == Raise("unset")

\* the argument of the first call: a string to decode, or the draws of a generation
CodecInputs(cls) ==
    {[kind |-> "string", s |-> s, draws |-> <<>>] : s \in InputStrings(cls)}
    \cup {[kind |-> "draws", s |-> <<>>, draws |-> d] : d \in ChoiceDraws(cls, NumComponents(cls))}

CodecInit ==
    /\ ccls \in Classes
    /\ cin \in CodecInputs(ccls)
    /\ cstr = Ok(<<>>)
    /\ cvec = NoVector
    /\ cenc = NoVector
    /\ cop = "init"

\* vec = obj._decode_dna(s)
CallDecode ==
    /\ cop = "init"
    /\ cin.kind = "string"
    /\ cstr' = Ok(cin.s)
    /\ cvec' = decode_dna(ccls, cin.s)
    /\ cop' = "decode"
    /\ UNCHANGED <<ccls, cin, cenc>>

\* vec = obj._generate_random_traits()
CallGenerate ==
    /\ cop = "init"
    /\ cin.kind = "draws"
    /\ cvec' = Ok(generate_random_traits(ccls, cin.draws))
    /\ cop' = "generate"
    /\ UNCHANGED <<ccls, cin, cstr, cenc>>

\* s = obj._encode_dna(vec)
CallEncode ==
    /\ cop \in {"decode", "generate"}
    /\ cvec.exc = "none"
    /\ cstr' = encode_dna(ccls, cvec.val)
    /\ cenc' = cvec
    /\ cop' = "encode"
    /\ UNCHANGED <<ccls, cin, cvec>>

\* vec = obj._decode_dna(s) for the string just encoded
CallDecodeEncoded ==
    /\ cop = "encode"
    /\ cstr.exc = "none"
    /\ cvec' = decode_dna(ccls, cstr.val)
    /\ cop' = "redecode"
    /\ UNCHANGED <<ccls, cin, cstr, cenc>>


(***************************************************************************)
(* Instances of WorldDNA / NPCPersonalityDNA: __init__, mutate, crossover. *)
(* An instance is [cls, dna_string, traits].  The PRNG outcome of a call   *)
(* is rng = [u, d]: u[i] is the value of random.random() drawn for the     *)
(* i-th trait, d[i] the draw of random.choice for it.                      *)
(***************************************************************************)

Instance(cls, dna_string, traits) == [cls |-> cls, dna_string |-> dna_string, traits |-> traits]

\* cls(dna_string): "" and None are both falsy
New(cls, dna_string, draws) ==
    IF dna_string # <<>>
    THEN Then(decode_dna(cls, dna_string), LAMBDA traits : Ok(Instance(cls, dna_string, traits)))
    ELSE Then(Ok(generate_random_traits(cls, draws)), LAMBDA traits :
            Then(encode_dna(cls, traits), LAMBDA encoded : Ok(Instance(cls, encoded, traits))))

\* a record that carries the traits and no dna_string
to_dict_TraitsOnly(self) == [dna_string |-> <<>>, traits |-> self.traits]

\* self.to_dict()
to_dict(self) == [dna_string |-> self.dna_string, traits |-> self.traits]

\* cls.from_dict(data): the traits of the record are not read
from_dict(cls, data, draws) ==
    IF data.dna_string = <<>> THEN New(cls, <<>>, draws) ELSE New(cls, data.dna_string, draws)

\* every value of the domain, the current one included
Options_All(values, current) == values

\* [v for v in values if v != current]
Options(values, current) == SelectSeq(values, LAMBDA v : v # current)

\* the loop body of mutate with "random.random() <= mutation_rate"
MutateStep_Inclusive(cls, traits, i, mutation_rate, rng) ==
    IF rng.u[i] <= mutation_rate
    THEN IF ~Has(COMPONENTS(cls), traits[i].k) THEN Raise("KeyError")
         ELSE LET current == traits[i].v
                  options == SelectSeq(Get(COMPONENTS(cls), traits[i].k), LAMBDA v : v # current)
              IN  IF options # <<>>
                  THEN Ok([k |-> traits[i].k, v |-> RandomChoice(options, rng.d[i])])
                  ELSE Ok(traits[i])
    ELSE Ok(traits[i])

\* the body of the loop of mutate for the i-th trait: it reads and writes that trait only
MutateStep(cls, traits, i, mutation_rate, rng) ==
    IF rng.u[i] < mutation_rate
    THEN IF ~Has(COMPONENTS(cls), traits[i].k) THEN Raise("KeyError")
         ELSE LET current == traits[i].v
                  options == Options(Get(COMPONENTS(cls), traits[i].k), current)
              IN  IF options # <<>>
                  THEN Ok([k |-> traits[i].k, v |-> RandomChoice(options, rng.d[i])])
                  ELSE Ok(traits[i])
    ELSE Ok(traits[i])

\* mutate and crossover without the domain rule
PostCondition_Skipped(cls, traits) == Ok(traits)

\* the domain rule re-applied by NPCPersonalityDNA.mutate and .crossover
PostCondition(cls, traits) ==
    IF cls = "NPCPersonalityDNA" THEN EnsureSecondary(traits) ELSE Ok(traits)

\* cls(encode(traits)), the last two lines of mutate and of crossover
Rebuild(cls, traits, draws) ==
    Then(encode_dna(cls, traits), LAMBDA dna : New(cls, dna, draws))

\* self.mutate(mutation_rate)
mutate(self, mutation_rate, rng) ==
    Then(Collect([i \in 1..Len(self.traits) |->
                    MutateStep(self.cls, self.traits, i, mutation_rate, rng)]),
         LAMBDA steps : Then(PostCondition(self.cls, steps),
            LAMBDA mutated_traits : Rebuild(self.cls, mutated_traits, rng.d)))

\* the loop body of crossover reading the other parent at the next position
CrossoverStep_Shifted(self, other, i, rng) ==
    IF rng.u[i] < 5 THEN Ok([k |-> self.traits[i].k, v |-> self.traits[i].v])
    ELSE Ok([k |-> self.traits[i].k, v |-> other.traits[(i % Len(other.traits)) + 1].v])

\* the body of the loop of crossover for the i-th trait of self
CrossoverStep(self, other, i, rng) ==
    IF rng.u[i] < 5 THEN Ok([k |-> self.traits[i].k, v |-> self.traits[i].v])
    ELSE IF ~Has(other.traits, self.traits[i].k) THEN Raise("KeyError")
    ELSE Ok([k |-> self.traits[i].k, v |-> Get(other.traits, self.traits[i].k)])

\* self.crossover(other)
crossover(self, other, rng) ==
    Then(Collect([i \in 1..Len(self.traits) |-> CrossoverStep(self, other, i, rng)]),
         LAMBDA steps : Then(PostCondition(self.cls, steps),
            LAMBDA child_traits : Rebuild(self.cls, child_traits, rng.d)))

\* the dicts when self.mutate(mutation_rate) returns: self.traits at 1, and
\* mutated_traits = self.traits.copy(), which the loop and the rule write into
MutateHeap(self, mutation_rate, rng) ==
    LET copied == CopyDict(<<self.traits>>, 1)
    IN  WrittenBy(copied.heap, copied.ref,
                  Then(Collect([i \in 1..Len(self.traits) |->
                                  MutateStep(self.cls, self.traits, i, mutation_rate, rng)]),
                       LAMBDA steps : PostCondition(self.cls, steps)))

\* the dicts when self.crossover(other) returns: self.traits at 1, other.traits at
\* 2, and child_traits = {} at 3, which the loop and the rule write into
CrossoverHeap(self, other, rng) ==
    WrittenBy(<<self.traits, other.traits, <<>>>>, 3,
              Then(Collect([i \in 1..Len(self.traits) |-> CrossoverStep(self, other, i, rng)]),
                   LAMBDA steps : PostCondition(self.cls, steps)))

(***************************************************************************)
(* A caller holding one instance: it mutates it or crosses it with another *)
(* instance and keeps the result.                                          *)
(***************************************************************************)

\* chunks written at the two free positions of a constructor's string
DnaChunks == {<<"0", "0">>, <<"0", "1">>, <<"0", "d">>}

DnaStrings(cls) ==
    {Rep(<<"0", "0">>, FreeA(cls) - 1) \o w1 \o w2 : w1 \in DnaChunks, w2 \in DnaChunks}

\* values of random.random(), in tenths
UnitValues == {0, 5}

UnitDraws(cls, n) ==
    {[i \in 1..n |-> IF i = FreeA(cls) THEN a ELSE IF i = FreeB(cls) THEN b ELSE c] :
        a \in UnitValues, b \in UnitValues, c \in UnitValues}

Rngs(cls, n) == {[u |-> u, d |-> d] : u \in UnitDraws(cls, n), d \in ChoiceDraws(cls, n)}

\* mutation rates, in tenths: 0.0, the default 0.2, 1.0
Rates == {0, 2, 10}

\* the instances a caller can construct: from a string, or at random
Constructed(cls) ==
    {[origin |-> "decoded", obj |-> New(cls, s, <<>>).val] : s \in DnaStrings(cls)}
    \cup {[origin |-> "generated", obj |-> New(cls, <<>>, d).val] :
            d \in ChoiceDraws(cls, NumComponents(cls))}

\* the instances cls("") constructs
ConstructedEmpty(cls) ==
    {[origin |-> "empty", obj |-> New(cls, <<>>, d).val] :
        d \in ChoiceDraws(cls, NumComponents(cls))}

\* a record whose dna_string is empty
EmptyRecord == [dna_string |-> <<>>, traits |-> <<>>]

NoInstance == Instance("none", <<>>, <<>>)

VARIABLES inst, origin, prev, other, recv, mate, op, rate, exc

dnaVars == <<inst, origin, prev, other, recv, mate, op, rate, exc>>

\* the caller has constructed its instance
DnaInit ==
    /\ \E cls \in Classes : \E c \in Constructed(cls) \cup ConstructedEmpty(cls) :
          /\ inst = c.obj
          /\ origin = c.origin
    /\ prev = NoInstance
    /\ other = NoInstance
    /\ recv = NoInstance
    /\ mate = NoInstance
    /\ op = "new"
    /\ rate = 0
    /\ exc = "none"

\* inst = inst.mutate(rate); prev keeps the receiver as it was before the call and
\* recv is the receiver as it is after the call
Mutate ==
    /\ op = "new"
    /\ \E r \in Rates : \E rng \in Rngs(inst.cls, Len(inst.traits)) :
          \E m \in {mutate(inst, r, rng)} :
              /\ rate' = r
              /\ exc' = m.exc
              /\ inst' = IF m.exc = "none" THEN m.val ELSE inst
              /\ recv' = Instance(inst.cls, inst.dna_string, MutateHeap(inst, r, rng)[1])
    /\ prev' = inst
    /\ other' = NoInstance
    /\ mate' = NoInstance
    /\ op' = "mutate"
    /\ UNCHANGED origin

\* inst = inst.crossover(other); prev and other keep the parents as they were
\* before the call, recv and mate are the parents as they are after the call
Crossover ==
    /\ op = "new"
    /\ \E o \in Constructed(inst.cls) : \E u \in UnitDraws(inst.cls, Len(inst.traits)) :
          \E c \in {crossover(inst, o.obj, [u |-> u, d |-> [i \in 1..Len(u) |-> 0]])} :
          \E heap \in {CrossoverHeap(inst, o.obj, [u |-> u, d |-> [i \in 1..Len(u) |-> 0]])} :
              /\ other' = o.obj
              /\ exc' = c.exc
              /\ inst' = IF c.exc = "none" THEN c.val ELSE inst
              /\ recv' = Instance(inst.cls, inst.dna_string, heap[1])
              /\ mate' = Instance(o.obj.cls, o.obj.dna_string, heap[2])
    /\ prev' = inst
    /\ op' = "crossover"
    /\ UNCHANGED <<origin, rate>>

\* inst = cls.from_dict(inst.to_dict()); prev keeps the instance converted; the
\* PRNG is drawn from only when the record has no dna_string
FromDict ==
    /\ op \in {"new", "mutate", "crossover"}
    /\ exc = "none"
    /\ \E d \in (IF to_dict(inst).dna_string = <<>>
                  THEN ChoiceDraws(inst.cls, NumComponents(inst.cls)) ELSE {<<>>}) :
          \E r \in {from_dict(inst.cls, to_dict(inst), d)} :
              /\ exc' = r.exc
              /\ inst' = IF r.exc = "none" THEN r.val ELSE inst
    /\ prev' = inst
    /\ op' = "from_dict"
    /\ UNCHANGED <<origin, other, recv, mate, rate>>

\* inst = cls.from_dict(record) for a record whose dna_string is empty
FromEmptyDict ==
    /\ op = "new"
    /\ \E d \in ChoiceDraws(inst.cls, NumComponents(inst.cls)) :
          \E r \in {from_dict(inst.cls, EmptyRecord, d)} :
              /\ exc' = r.exc
              /\ inst' = IF r.exc = "none" THEN r.val ELSE inst
    /\ prev' = inst
    /\ op' = "from_empty_dict"
    /\ UNCHANGED <<origin, other, recv, mate, rate>>

(***************************************************************************)
(* WorldDNAGenerator: scored vectors.  A scored vector is a dict from a     *)
(* trait key to <<prevalence, intensity>>.                                  *)
(***************************************************************************)

version == "1.6"

trait_categories == <<
    [k |-> "PHYSICAL", v |-> <<"climate", "terrain", "resources", "hazards">>],
    [k |-> "CULTURAL", v |-> <<"society", "technology", "religion", "trade">>],
    [k |-> "POLITICAL", v |-> <<"government", "conflict", "diplomacy", "stability">>],
    [k |-> "MAGICAL", v |-> <<"intensity", "prevalence", "schools", "artifacts">>] >>

critical_thresholds == <<
    [k |-> "high_magic", v |-> <<[k |-> "magical.intensity", v |-> 4],
                                 [k |-> "magical.prevalence", v |-> 7]>>],
    [k |-> "unstable", v |-> <<[k |-> "political.conflict", v |-> 4],
                               [k |-> "political.stability", v |-> 2]>>],
    [k |-> "advanced", v |-> <<[k |-> "cultural.technology", v |-> 7],
                               [k |-> "cultural.society", v |-> 6]>>] >>

chain_reactions == <<
    [k |-> "magical_crisis",
     v |-> [trigger |-> "high_magic",
            effects |-> <<[k |-> "political.stability", v |-> -2],
                          [k |-> "cultural.society", v |-> 1],
                          [k |-> "magical.artifacts", v |-> 2]>>]],
    [k |-> "societal_collapse",
     v |-> [trigger |-> "unstable",
            effects |-> <<[k |-> "cultural.trade", v |-> -2],
                          [k |-> "political.government", v |-> -1],
                          [k |-> "cultural.society", v |-> -2]>>]] >>

time_periods == <<"PAST", "PRESENT", "NEAR", "FAR">>

\* the patterns with an ACCELERATING that leaves the intensity as it is
evolution_patterns_Flat == <<
    [k |-> "ACCELERATING", v |-> [prevalence_mod |-> 2, intensity_mod |-> 0]],
    [k |-> "DECLINING", v |-> [prevalence_mod |-> -1, intensity_mod |-> -1]],
    [k |-> "UNSTABLE", v |-> [prevalence_mod |-> 0, intensity_mod |-> 2]],
    [k |-> "STABILIZING", v |-> [prevalence_mod |-> 0, intensity_mod |-> -1]] >>

evolution_patterns == <<
    [k |-> "ACCELERATING", v |-> [prevalence_mod |-> 2, intensity_mod |-> 1]],
    [k |-> "DECLINING", v |-> [prevalence_mod |-> -1, intensity_mod |-> -1]],
    [k |-> "UNSTABLE", v |-> [prevalence_mod |-> 0, intensity_mod |-> 2]],
    [k |-> "STABILIZING", v |-> [prevalence_mod |-> 0, intensity_mod |-> -1]] >>

\* random.randint(a, b) with the PRNG's next draw r
RandInt(a, b, r) == a + (r % (b - a + 1))

\* the keys f"{category.lower()}.{trait}" in the order the two loops make them
TraitKeys ==
    Join([c \in 1..Len(trait_categories) |->
            [t \in 1..Len(trait_categories[c].v) |->
                Lower(trait_categories[c].k) \o "." \o trait_categories[c].v[t]]])

\* a prevalence draw, then an intensity draw, for each trait in order
generate_base_traits(draws) ==
    [n \in 1..Len(TraitKeys) |->
        [k |-> TraitKeys[n],
         v |-> <<RandInt(1, 9, draws[2 * n - 1]), RandInt(1, 5, draws[2 * n])>>]]

\* the conditions compared with the intensity, a missing trait passing
check_thresholds_Intensity(traits) ==
    {critical_thresholds[t].k : t \in
        {t \in 1..Len(critical_thresholds) :
            \A c \in 1..Len(critical_thresholds[t].v) :
                LET trait == critical_thresholds[t].v[c].k
                    min_value == critical_thresholds[t].v[c].v
                IN  Has(traits, trait) => Get(traits, trait)[2] >= min_value}}

\* the names of the thresholds whose loop over the conditions ends without a break
check_thresholds(traits) ==
    {critical_thresholds[t].k : t \in
        {t \in 1..Len(critical_thresholds) :
            \A c \in 1..Len(critical_thresholds[t].v) :
                LET trait == critical_thresholds[t].v[c].k
                    min_value == critical_thresholds[t].v[c].v
                IN  Has(traits, trait) /\ Get(traits, trait)[1] >= min_value}}

\* the inner loop of apply_chain_reactions with the modifier added to the prevalence
RECURSIVE ApplyEffects_Prevalence(_, _, _)
ApplyEffects_Prevalence(modified_traits, effects, n) ==
    IF n > Len(effects) THEN modified_traits
    ELSE LET trait == effects[n].k
             modifier == effects[n].v
         IN  IF Has(modified_traits, trait)
             THEN LET prv == Get(modified_traits, trait)[1]
                      intens == Get(modified_traits, trait)[2]
                      new_prev == Max(1, Min(9, prv + modifier))
                  IN  ApplyEffects_Prevalence(Put(modified_traits, trait, <<new_prev, intens>>),
                                              effects, n + 1)
             ELSE ApplyEffects_Prevalence(modified_traits, effects, n + 1)

\* the inner loop of apply_chain_reactions with the modifier added to both scores
RECURSIVE ApplyEffects_Both(_, _, _)
ApplyEffects_Both(modified_traits, effects, n) ==
    IF n > Len(effects) THEN modified_traits
    ELSE LET trait == effects[n].k
             modifier == effects[n].v
         IN  IF Has(modified_traits, trait)
             THEN LET prv == Get(modified_traits, trait)[1]
                      intens == Get(modified_traits, trait)[2]
                      new_prev == Max(1, Min(9, prv + modifier))
                      new_intens == Max(1, Min(5, intens + modifier))
                  IN  ApplyEffects_Both(Put(modified_traits, trait, <<new_prev, new_intens>>),
                                        effects, n + 1)
             ELSE ApplyEffects_Both(modified_traits, effects, n + 1)

\* the inner loop of apply_chain_reactions from the n-th effect of a reaction on
RECURSIVE ApplyEffects(_, _, _)
ApplyEffects(modified_traits, effects, n) ==
    IF n > Len(effects) THEN modified_traits
    ELSE LET trait == effects[n].k
             modifier == effects[n].v
         IN  IF Has(modified_traits, trait)
             THEN LET prv == Get(modified_traits, trait)[1]
                      intens == Get(modified_traits, trait)[2]
                      new_intens == Max(1, Min(5, intens + modifier))
                  IN  ApplyEffects(Put(modified_traits, trait, <<prv, new_intens>>), effects, n + 1)
             ELSE ApplyEffects(modified_traits, effects, n + 1)

\* the outer loop of apply_chain_reactions taking the reactions last to first
RECURSIVE ApplyReactions_LastFirst(_, _, _)
ApplyReactions_LastFirst(modified_traits, met_thresholds, n) ==
    IF n > Len(chain_reactions) THEN modified_traits
    ELSE LET reaction_data == chain_reactions[n].v
         IN  IF reaction_data.trigger \in met_thresholds
             THEN ApplyEffects(ApplyReactions_LastFirst(modified_traits, met_thresholds, n + 1),
                               reaction_data.effects, 1)
             ELSE ApplyReactions_LastFirst(modified_traits, met_thresholds, n + 1)

\* the outer loop of apply_chain_reactions from the n-th reaction on
RECURSIVE ApplyReactions(_, _, _)
ApplyReactions(modified_traits, met_thresholds, n) ==
    IF n > Len(chain_reactions) THEN modified_traits
    ELSE LET reaction_data == chain_reactions[n].v
         IN  IF reaction_data.trigger \in met_thresholds
             THEN ApplyReactions(ApplyEffects(modified_traits, reaction_data.effects, 1),
                                 met_thresholds, n + 1)
             ELSE ApplyReactions(modified_traits, met_thresholds, n + 1)

apply_chain_reactions(traits, met_thresholds) == ApplyReactions(traits, met_thresholds, 1)

\* the dicts when apply_chain_reactions returns: traits at 1, and modified_traits =
\* traits.copy(), which the loops write into
ChainHeap(traits, met_thresholds) ==
    LET copied == CopyDict(<<traits>>, 1)
    IN  Store(copied.heap, copied.ref, apply_chain_reactions(traits, met_thresholds))

HIGH_THRESHOLD == 7

LOW_THRESHOLD == 3

identify_trends(traits) ==
    [RISING |-> Keys(SelectSeq(traits, LAMBDA t : t.v[1] >= HIGH_THRESHOLD /\ t.v[2] >= 4)),
     FALLING |-> Keys(SelectSeq(traits, LAMBDA t :
                    /\ ~(t.v[1] >= HIGH_THRESHOLD /\ t.v[2] >= 4)
                    /\ t.v[1] <= LOW_THRESHOLD /\ t.v[2] <= 2))]

\* the if/elif chain with ACCELERATING from intensity 3 on
ClassifyPattern_Loose(prv, intens) ==
    IF prv >= 7 /\ intens >= 3 THEN "ACCELERATING"
    ELSE IF prv <= 3 /\ intens <= 2 THEN "DECLINING"
    ELSE IF 4 <= prv /\ prv <= 6 /\ intens >= 4 THEN "UNSTABLE"
    ELSE IF 4 <= prv /\ prv <= 6 /\ intens <= 2 THEN "STABILIZING"
    ELSE ""

\* the if/elif chain of identify_evolution_patterns; "" when no branch is taken
ClassifyPattern(prv, intens) ==
    IF prv >= 7 /\ intens >= 4 THEN "ACCELERATING"
    ELSE IF prv <= 3 /\ intens <= 2 THEN "DECLINING"
    ELSE IF 4 <= prv /\ prv <= 6 /\ intens >= 4 THEN "UNSTABLE"
    ELSE IF 4 <= prv /\ prv <= 6 /\ intens <= 2 THEN "STABILIZING"
    ELSE ""

\* one of the two override loops: every listed trait that has a pattern gets `pattern`
RECURSIVE OverridePatterns(_, _, _, _)
OverridePatterns(patterns, listed, pattern, n) ==
    IF n > Len(listed) THEN patterns
    ELSE IF Has(patterns, listed[n]) /\ Get(patterns, listed[n]) # pattern
         THEN OverridePatterns(Put(patterns, listed[n], pattern), listed, pattern, n + 1)
         ELSE OverridePatterns(patterns, listed, pattern, n + 1)

identify_evolution_patterns(all_traits, trends) ==
    LET significant == SelectSeq(all_traits, LAMBDA t : ClassifyPattern(t.v[1], t.v[2]) # "")
        patterns == [n \in 1..Len(significant) |->
                        [k |-> significant[n].k,
                         v |-> ClassifyPattern(significant[n].v[1], significant[n].v[2])]]
        risen == OverridePatterns(patterns, trends.RISING, "ACCELERATING", 1)
    IN  OverridePatterns(risen, trends.FALLING, "DECLINING", 1)

\* the loop of calculate_evolution stopping one step early
RECURSIVE EvolutionLoop_Short(_, _, _, _, _)
EvolutionLoop_Short(evolution, pattern, n, time_steps, draws) ==
    IF n + 1 >= time_steps THEN evolution
    ELSE LET pattern_data == Get(evolution_patterns, pattern)
             current_prev == evolution[Len(evolution)][1]
             current_int == evolution[Len(evolution)][2]
             new_prev == Max(1, Min(9, current_prev + pattern_data.prevalence_mod))
             new_int == Max(1, Min(5, current_int + pattern_data.intensity_mod))
         IN  EvolutionLoop_Short(Append(evolution, <<new_prev, new_int>>), pattern, n + 1,
                                 time_steps, draws)

\* the loop of calculate_evolution after n steps; an UNSTABLE step takes two draws
RECURSIVE EvolutionLoop(_, _, _, _, _)
EvolutionLoop(evolution, pattern, n, time_steps, draws) ==
    IF n >= time_steps THEN evolution
    ELSE LET pattern_data == Get(evolution_patterns, pattern)
             current_prev == evolution[Len(evolution)][1]
             current_int == evolution[Len(evolution)][2]
             new_prev == Max(1, Min(9, current_prev + pattern_data.prevalence_mod))
             new_int == Max(1, Min(5, current_int + pattern_data.intensity_mod))
             step == IF pattern = "UNSTABLE"
                     THEN <<Max(1, Min(9, new_prev + RandInt(-1, 1, draws[2 * n + 1]))),
                            Max(1, Min(5, new_int + RandInt(-1, 1, draws[2 * n + 2])))>>
                     ELSE <<new_prev, new_int>>
         IN  EvolutionLoop(Append(evolution, step), pattern, n + 1, time_steps, draws)

calculate_evolution(trait_value, pattern, time_steps, draws) ==
    EvolutionLoop(<<trait_value>>, pattern, 0, time_steps, draws)

\* the loop of generate_dna over bias.items() without max(1, min(9, ...))
RECURSIVE BiasLoop_Unclamped(_, _, _)
BiasLoop_Unclamped(all_traits, bias, n) ==
    IF n > Len(bias) THEN all_traits
    ELSE LET trait == bias[n].k
             bias_prev == bias[n].v[1]
             bias_int == bias[n].v[2]
         IN  IF Has(all_traits, trait)
             THEN LET prv == Get(all_traits, trait)[1]
                      intens == Get(all_traits, trait)[2]
                  IN  BiasLoop_Unclamped(Put(all_traits, trait, <<prv + bias_prev, intens + bias_int>>),
                                         bias, n + 1)
             ELSE BiasLoop_Unclamped(all_traits, bias, n + 1)

\* the loop of generate_dna over bias.items() from the n-th item on
RECURSIVE BiasLoop(_, _, _)
BiasLoop(all_traits, bias, n) ==
    IF n > Len(bias) THEN all_traits
    ELSE LET trait == bias[n].k
             bias_prev == bias[n].v[1]
             bias_int == bias[n].v[2]
         IN  IF Has(all_traits, trait)
             THEN LET prv == Get(all_traits, trait)[1]
                      intens == Get(all_traits, trait)[2]
                      new_prev == Max(1, Min(9, prv + bias_prev))
                      new_int == Max(1, Min(5, intens + bias_int))
                  IN  BiasLoop(Put(all_traits, trait, <<new_prev, new_int>>), bias, n + 1)
             ELSE BiasLoop(all_traits, bias, n + 1)

\* "if bias:" and its loop; None and the empty dict are both <<>>
apply_bias(all_traits, bias) == IF bias # <<>> THEN BiasLoop(all_traits, bias, 1) ELSE all_traits

\* f"{prev}{intens}"
ScoreToken(value) == Str(value[1]) \o Str(value[2])

\* "TRAITS{" + ";".join(trait_parts) + "}"
TraitsBlock(all_traits) ==
    "TRAITS{" \o StrJoin(";", [n \in 1..Len(all_traits) |->
        Split(all_traits[n].k, ".")[2] \o ":" \o ScoreToken(all_traits[n].v)]) \o "}"

\* "THRESH{" + ";".join(met_thresholds) + "}"; order is the iteration order of the set
ThreshBlock(met_thresholds, order) ==
    "THRESH{" \o StrJoin(";", SelectSeq(order, LAMBDA t : t \in met_thresholds)) \o "}"

\* the series of every trait that has a pattern
SignificantEvolutions_All(all_traits, patterns) ==
    [n \in 1..Len(patterns) |->
        [k |-> patterns[n].k,
         v |-> calculate_evolution(Get(all_traits, patterns[n].k), patterns[n].v,
                                   Len(time_periods) - 1, <<>>)]]

\* significant_evolutions: the series of the ACCELERATING and DECLINING traits
SignificantEvolutions(all_traits, patterns) ==
    LET major == SelectSeq(patterns, LAMBDA e : e.v \in {"ACCELERATING", "DECLINING"})
    IN  [n \in 1..Len(major) |->
            [k |-> major[n].k,
             v |-> calculate_evolution(Get(all_traits, major[n].k), major[n].v,
                                       Len(time_periods) - 1, <<>>)]]

\* "EVO{" + ";".join(evo_parts) + "}"
EvoBlock(significant_evolutions, patterns) ==
    "EVO{" \o StrJoin(";", [n \in 1..Len(significant_evolutions) |->
        LET trait == significant_evolutions[n].k
            evolution == significant_evolutions[n].v
            evo_values == [m \in 1..Len(evolution) |-> ScoreToken(evolution[m])]
        IN  Split(trait, ".")[2] \o ":" \o Get(patterns, trait)
                \o "[" \o StrJoin(",", evo_values) \o "]"]) \o "}"

\* all_traits of generate_dna once bias and chain reactions are applied
GeneratedTraits(bias, draws) ==
    LET biased == apply_bias(generate_base_traits(draws), bias)
    IN  apply_chain_reactions(biased, check_thresholds(biased))

\* the thresholds evaluated on the base vector, before the bias
GeneratedThresholds_Unbiased(bias, draws) == check_thresholds(generate_base_traits(draws))

\* met_thresholds of generate_dna
GeneratedThresholds(bias, draws) ==
    check_thresholds(apply_bias(generate_base_traits(draws), bias))

generate_dna(bias, draws, order) ==
    LET all_traits == GeneratedTraits(bias, draws)
        met_thresholds == GeneratedThresholds(bias, draws)
        trends == identify_trends(all_traits)
        patterns == identify_evolution_patterns(all_traits, trends)
        significant_evolutions == SignificantEvolutions(all_traits, patterns)
        dna_parts ==
            <<"V" \o version, TraitsBlock(all_traits)>>
            \o (IF met_thresholds # {} THEN <<ThreshBlock(met_thresholds, order)>> ELSE <<>>)
            \o (IF significant_evolutions # <<>>
                THEN <<EvoBlock(significant_evolutions, patterns)>> ELSE <<>>)
    IN  StrJoin(" ", dna_parts)

(***************************************************************************)
(* Callers of the scored generator: a vector that is generated, or handed  *)
(* in with traits missing, then biased, put through chain reactions and    *)
(* projected, in any order; and generate_dna on the same draws.            *)
(***************************************************************************)

\* the draws behind the scores <<1,1>>, <<4,2>>, <<5,5>>, <<7,3>> and <<9,5>>
ScoreDraws == {<<0, 0>>, <<3, 1>>, <<4, 4>>, <<6, 2>>, <<8, 4>>}

\* the draws of the traits that do not vary on their own: <<1,1>>, <<5,5>>, <<9,4>>
CommonDraws == {<<0, 0>>, <<4, 4>>, <<8, 3>>}

\* the traits whose draws vary independently of the others
FreeTraits == <<"cultural.society", "political.conflict">>

\* the draw sequences of generate_base_traits that are explored
BaseDraws ==
    {[n \in 1..(2 * Len(TraitKeys)) |->
        LET key == TraitKeys[(n + 1) \div 2]
            pair == IF key = FreeTraits[1] THEN a
                    ELSE IF key = FreeTraits[2] THEN b
                    ELSE c
        IN  pair[2 - (n % 2)]] :
        a \in ScoreDraws, b \in ScoreDraws, c \in CommonDraws}

\* traits a caller's vector may lack
DroppedTraits == {{}, {"cultural.society", "political.stability", "magical.artifacts"}}

\* bias arguments: none, deltas far beyond the ranges, an unknown trait
Biases == {
    <<>>,
    <<[k |-> "cultural.society", v |-> <<-20, 3>>]>>,
    <<[k |-> "magical.prevalence", v |-> <<7, -1>>],
      [k |-> "political.conflict", v |-> <<100, 100>>],
      [k |-> "unknown.trait", v |-> <<1, 1>>]>> }

\* bias arguments of generate_dna: those above, and one that moves values onto the
\* bounds of ACCELERATING (7,4) and DECLINING (3,2)
GenerateBiases ==
    Biases \cup {<<[k |-> "physical.climate", v |-> <<-2, 0>>],
                   [k |-> "political.conflict", v |-> <<2, 1>>]>>}

ThresholdNames == {critical_thresholds[t].k : t \in 1..Len(critical_thresholds)}

\* iteration orders of the set met_thresholds
SetOrders == {<<"high_magic", "unstable", "advanced">>, <<"advanced", "unstable", "high_magic">>}

\* the trait a caller projects
EvolvedTraits == {"political.conflict"}

MaxSteps == 3

\* the draws of the jitter: the pair j, swapped at every other step
JitterDraws(time_steps) ==
    {[n \in 1..(2 * time_steps) |-> IF n % 4 \in {0, 1} THEN j[1] ELSE j[2]] :
        j \in {<<0, 2>>, <<1, 1>>, <<2, 0>>}}

\* the bias and chain-reaction steps a caller chains on one vector
MaxGenOps == 2

\* the trends arguments of identify_evolution_patterns: the trends of the vector
\* itself, and lists a caller builds
TrendsArguments(traits) == {
    identify_trends(traits),
    [RISING |-> <<"cultural.society">>, FALLING |-> <<"political.conflict">>],
    [RISING |-> <<"political.conflict", "physical.climate">>,
     FALLING |-> <<"cultural.society">>] }

VARIABLES gdraws, gtraits, gprev, ginput, gbias, gmet, gcall, gseries, gdna, gagain, gop, gn,
          gtrends, gpatterns

genVars == <<gdraws, gtraits, gprev, ginput, gbias, gmet, gcall, gseries, gdna, gagain, gop, gn,
             gtrends, gpatterns>>

NoTrends == [RISING |-> <<>>, FALLING |-> <<>>]

NoCall == [trait |-> "", pattern |-> "", time_steps |-> 0, draws |-> <<>>]

GenInit ==
    /\ gdraws \in BaseDraws
    /\ \E dropped \in DroppedTraits :
          gtraits = SelectSeq(generate_base_traits(gdraws), LAMBDA t : t.k \notin dropped)
    /\ gprev = <<>>
    /\ ginput = <<>>
    /\ gbias = <<>>
    /\ gmet = {}
    /\ gcall = NoCall
    /\ gseries = <<>>
    /\ gdna = ""
    /\ gagain = ""
    /\ gop = "base"
    /\ gn = 0
    /\ gtrends = NoTrends
    /\ gpatterns = <<>>

\* the bias step of generate_dna on the vector
ApplyBias ==
    /\ gn < MaxGenOps
    /\ gop \notin {"generate_dna", "evolve", "again", "check", "patterns"}
    /\ \E bias \in Biases :
          /\ gbias' = bias
          /\ gtraits' = apply_bias(gtraits, bias)
    /\ gprev' = gtraits
    /\ gop' = "bias"
    /\ gn' = gn + 1
    /\ gseries' = <<>>
    /\ gcall' = NoCall
    /\ ginput' = <<>>
    /\ UNCHANGED <<gtrends, gpatterns, gdraws, gmet, gdna, gagain>>

\* apply_chain_reactions(traits, met_thresholds) for any set of threshold names;
\* gprev keeps the argument as it was before the call, ginput is the argument as
\* it is after the call
ApplyChainReactions ==
    /\ gn < MaxGenOps
    /\ gop \notin {"generate_dna", "evolve", "again", "check", "patterns"}
    /\ \E met_thresholds \in SUBSET ThresholdNames :
          /\ gmet' = met_thresholds
          /\ gtraits' = apply_chain_reactions(gtraits, met_thresholds)
          /\ ginput' = ChainHeap(gtraits, met_thresholds)[1]
    /\ gprev' = gtraits
    /\ gop' = "chain"
    /\ gn' = gn + 1
    /\ gseries' = <<>>
    /\ gcall' = NoCall
    /\ UNCHANGED <<gtrends, gpatterns, gdraws, gbias, gdna, gagain>>

\* calculate_evolution(traits[trait], pattern, time_steps): the series goes to the
\* caller and the vector stays as it is, so the steps on the vector are those
\* taken without the projection
CalculateEvolution ==
    /\ gop \notin {"generate_dna", "evolve", "again", "check", "patterns"}
    /\ \E trait \in EvolvedTraits, pattern \in Range(Keys(evolution_patterns)),
          time_steps \in 0..MaxSteps :
          \E draws \in (IF pattern = "UNSTABLE" THEN JitterDraws(time_steps) ELSE {<<>>}) :
              /\ Has(gtraits, trait)
              /\ gcall' = [trait |-> trait, pattern |-> pattern, time_steps |-> time_steps,
                            draws |-> draws]
              /\ gseries' = calculate_evolution(Get(gtraits, trait), pattern, time_steps, draws)
    /\ gop' = "evolve"
    /\ UNCHANGED <<gtrends, gpatterns, gdraws, gtraits, gprev, ginput, gbias, gmet, gdna, gagain, gn>>

\* met = check_thresholds(traits) on the vector the caller holds
CheckThresholds ==
    /\ gop \notin {"generate_dna", "evolve", "again", "check", "patterns"}
    /\ gmet' = check_thresholds(gtraits)
    /\ gop' = "check"
    /\ UNCHANGED <<gtrends, gpatterns, gdraws, gtraits, gprev, ginput, gbias, gcall, gseries, gdna, gagain, gn>>

\* patterns = identify_evolution_patterns(traits, trends) on the vector the caller
\* holds
IdentifyEvolutionPatterns ==
    /\ gop \notin {"generate_dna", "evolve", "again", "check", "patterns"}
    /\ \E trends \in TrendsArguments(gtraits) :
          /\ gtrends' = trends
          /\ gpatterns' = identify_evolution_patterns(gtraits, trends)
    /\ gop' = "patterns"
    /\ UNCHANGED <<gdraws, gtraits, gprev, ginput, gbias, gmet, gcall, gseries, gdna, gagain, gn>>

\* generate_dna(bias) on the draws of the base vector
GenerateDna ==
    /\ gop = "base"
    /\ Len(gtraits) = Len(TraitKeys)
    /\ \E bias \in GenerateBiases, order \in SetOrders :
          /\ gbias' = bias
          /\ gtraits' = GeneratedTraits(bias, gdraws)
          /\ gmet' = GeneratedThresholds(bias, gdraws)
          /\ gdna' = generate_dna(bias, gdraws, order)
    /\ gprev' = gtraits
    /\ gop' = "generate_dna"
    /\ gn' = gn + 1
    /\ UNCHANGED <<gtrends, gpatterns, gdraws, ginput, gcall, gseries, gagain>>

\* generate_dna(bias) run once more, in another process, on the same bias and the
\* same draws: the set met_thresholds has the iteration order of that process
GenerateDnaAgain ==
    /\ gop = "generate_dna"
    /\ \E order \in SetOrders : gagain' = generate_dna(gbias, gdraws, order)
    /\ gop' = "again"
    /\ UNCHANGED <<gtrends, gpatterns, gdraws, gtraits, gprev, ginput, gbias, gmet, gcall, gseries, gdna, gn>>

(***************************************************************************)
(* The parsers of the advanced DNA grammar: the decoder's                  *)
(* format_dna_for_decoding, and the simplified conversion to_simple_traits *)
(* with WorldDNA.from_advanced_dna.                                        *)
(***************************************************************************)

\* "a, b = parts": unpacking a list into two names
Unpack2(parts) == IF Len(parts) = 2 THEN Ok(parts) ELSE Raise("ValueError")

\* a dict filled by assigning the items in order
RECURSIVE DictFrom(_, _)
DictFrom(d, items) ==
    IF items = <<>> THEN d ELSE DictFrom(Put(d, Head(items).k, Head(items).v), Tail(items))

\* the items the passes of a loop assign: each pass gives none or one
Assigned(passes) == Join(passes)

\* advanced_dna.split(tag)[1].split("}")[0], where tag is in advanced_dna
SectionAfter(advanced_dna, tag) == Split(Split(advanced_dna, tag)[2], "}")[1]

\* the version of format_dna_for_decoding
FormatVersion(advanced_dna) ==
    IF StartsWith(advanced_dna, "V") THEN From(Split(advanced_dna, " ")[1], 2) ELSE "1.0"

\* the entry result["traits"][name] for a value token
FormatTraitValue(value) ==
    IF Len(value) >= 2 /\ IsDigit(CharAt(value, 1)) /\ IsDigit(CharAt(value, 2))
    THEN [prevalence |-> DigitValue(CharAt(value, 1)),
          intensity |-> DigitValue(CharAt(value, 2)),
          raw |-> value]
    ELSE [prevalence |-> 5, intensity |-> 5, raw |-> value]

\* one pass of the loop over traits_section.split(";")
FormatTraitPart(trait_part) ==
    IF Contains(trait_part, ":")
    THEN Then(Unpack2(Split(trait_part, ":")),
              LAMBDA nv : Ok(<<[k |-> nv[1], v |-> FormatTraitValue(nv[2])]>>))
    ELSE Ok(<<>>)

FormatTraits(advanced_dna) ==
    IF Contains(advanced_dna, "TRAITS{")
    THEN Then(Collect([n \in 1..Len(Split(SectionAfter(advanced_dna, "TRAITS{"), ";")) |->
                        FormatTraitPart(Split(SectionAfter(advanced_dna, "TRAITS{"), ";")[n])]),
              LAMBDA passes : Ok(DictFrom(<<>>, Assigned(passes))))
    ELSE Ok(<<>>)

FormatThresholds(advanced_dna) ==
    IF Contains(advanced_dna, "THRESH{")
    THEN Split(SectionAfter(advanced_dna, "THRESH{"), ";")
    ELSE <<>>

\* the names given to the first four values of an EVO{} entry
PeriodNames == <<"PAST", "PRESENT", "NEAR", "FAR">>

\* the names given to the values from the second one on
TimePeriods_Shifted(values) ==
    [n \in 1..Min(Len(values) - 1, Len(PeriodNames)) |->
        [k |-> PeriodNames[n], v |-> values[n + 1]]]

\* the four "if len(values) >= n" of the EVO{} loop
TimePeriods(values) ==
    [n \in 1..Min(Len(values), Len(PeriodNames)) |-> [k |-> PeriodNames[n], v |-> values[n]]]

\* result["evolution"][trait] from the text after the first ":" of an entry
FormatEvoValues(trait, pattern_values) ==
    Then(PyIndex(Split(pattern_values, "["), 1), LAMBDA after :
        Ok(<<[k |-> trait,
              v |-> [pattern |-> Split(pattern_values, "[")[1],
                     values |-> Split(Split(after, "]")[1], ","),
                     time_periods |-> TimePeriods(Split(Split(after, "]")[1], ","))]]>>))

\* one pass of the loop over evo_part.split(";")
FormatEvoItem(evo_item) ==
    IF Contains(evo_item, ":") /\ Contains(evo_item, "[") /\ Contains(evo_item, "]")
    THEN FormatEvoValues(SplitOnce(evo_item, ":")[1], SplitOnce(evo_item, ":")[2])
    ELSE Ok(<<>>)

FormatEvolution(advanced_dna) ==
    IF Contains(advanced_dna, "EVO{")
    THEN Then(Collect([n \in 1..Len(Split(SectionAfter(advanced_dna, "EVO{"), ";")) |->
                        FormatEvoItem(Split(SectionAfter(advanced_dna, "EVO{"), ";")[n])]),
              LAMBDA passes : Ok(DictFrom(<<>>, Assigned(passes))))
    ELSE Ok(<<>>)

\* one pass of the loop over traits.split(",") of a region
FormatRegionTrait(trait) ==
    IF Contains(trait, "=")
    THEN Then(Unpack2(Split(trait, "=")), LAMBDA nv : Ok(<<[k |-> nv[1], v |-> nv[2]]>>))
    ELSE Ok(<<>>)

\* one pass of the loop over reg_part.split(";")
FormatRegion(region) ==
    IF Contains(region, ":")
    THEN Then(Collect([n \in 1..Len(Split(SplitOnce(region, ":")[2], ",")) |->
                        FormatRegionTrait(Split(SplitOnce(region, ":")[2], ",")[n])]),
              LAMBDA passes :
                  Ok(<<[k |-> SplitOnce(region, ":")[1], v |-> DictFrom(<<>>, Assigned(passes))]>>))
    ELSE Ok(<<>>)

FormatRegions(advanced_dna) ==
    IF Contains(advanced_dna, "REG{")
    THEN Then(Collect([n \in 1..Len(Split(SectionAfter(advanced_dna, "REG{"), ";")) |->
                        FormatRegion(Split(SectionAfter(advanced_dna, "REG{"), ";")[n])]),
              LAMBDA passes : Ok(DictFrom(<<>>, Assigned(passes))))
    ELSE Ok(<<>>)

\* one pass of the loop over chain_part.split(";")
FormatChain(chain) ==
    IF Contains(chain, "->")
    THEN Then(Unpack2(Split(chain, "->")),
              LAMBDA te : Ok(<<[trigger |-> te[1], effect |-> te[2]]>>))
    ELSE Ok(<<>>)

FormatChains(advanced_dna) ==
    IF Contains(advanced_dna, "CHAIN{")
    THEN Then(Collect([n \in 1..Len(Split(SectionAfter(advanced_dna, "CHAIN{"), ";")) |->
                        FormatChain(Split(SectionAfter(advanced_dna, "CHAIN{"), ";")[n])]),
              LAMBDA passes : Ok(Assigned(passes)))
    ELSE Ok(<<>>)

\* WorldDNADecoder.format_dna_for_decoding: the sections are read in this order
format_dna_for_decoding(advanced_dna) ==
    Then(FormatTraits(advanced_dna), LAMBDA traits :
      Then(FormatEvolution(advanced_dna), LAMBDA evolution :
        Then(FormatRegions(advanced_dna), LAMBDA regions :
          Then(FormatChains(advanced_dna), LAMBDA chains :
            Ok([version |-> FormatVersion(advanced_dna),
                traits |-> traits,
                thresholds |-> FormatThresholds(advanced_dna),
                evolution |-> evolution,
                regions |-> regions,
                chain_reactions |-> chains])))))

\* the digit of value at position n, or the default
DigitOr(value, n, default) ==
    IF Len(value) >= n /\ IsDigit(CharAt(value, n)) THEN DigitValue(CharAt(value, n)) ELSE default

\* dna_visualizer: the prevalence and intensity of a value token, each position on
\* its own
VisScore(value) == [prevalence |-> DigitOr(value, 1, 5), intensity |-> DigitOr(value, 2, 3)]

\* one pass of the loop over traits_section.split(";") of parse_advanced_dna
VisTraitPart(trait_part) ==
    IF Contains(trait_part, ":")
    THEN Then(Unpack2(Split(trait_part, ":")),
              LAMBDA nv : Ok(<<[k |-> nv[1], v |-> VisScore(nv[2])]>>))
    ELSE Ok(<<>>)

VisTraits(dna_string) ==
    IF Contains(dna_string, "TRAITS{")
    THEN Then(Collect([n \in 1..Len(Split(SectionAfter(dna_string, "TRAITS{"), ";")) |->
                        VisTraitPart(Split(SectionAfter(dna_string, "TRAITS{"), ";")[n])]),
              LAMBDA passes : Ok(DictFrom(<<>>, Assigned(passes))))
    ELSE Ok(<<>>)

\* result["evolution"][trait] from the text after the first ":" of an entry
VisEvoValues(trait, pattern_values) ==
    Then(PyIndex(Split(pattern_values, "["), 1), LAMBDA after :
        Ok(<<[k |-> trait,
              v |-> [pattern |-> Split(pattern_values, "[")[1],
                     values |-> [n \in 1..Len(Split(Split(after, "]")[1], ",")) |->
                                    VisScore(Split(Split(after, "]")[1], ",")[n])]]]>>))

\* one pass of the loop over evo_section.split(";") of parse_advanced_dna
VisEvoPart(evo_part) ==
    IF Contains(evo_part, ":") /\ Contains(evo_part, "[") /\ Contains(evo_part, "]")
    THEN VisEvoValues(SplitOnce(evo_part, ":")[1], SplitOnce(evo_part, ":")[2])
    ELSE Ok(<<>>)

VisEvolution(dna_string) ==
    IF Contains(dna_string, "EVO{")
    THEN Then(Collect([n \in 1..Len(Split(SectionAfter(dna_string, "EVO{"), ";")) |->
                        VisEvoPart(Split(SectionAfter(dna_string, "EVO{"), ";")[n])]),
              LAMBDA passes : Ok(DictFrom(<<>>, Assigned(passes))))
    ELSE Ok(<<>>)

\* dna_visualizer.parse_advanced_dna
parse_advanced_dna(dna_string) ==
    Then(VisTraits(dna_string), LAMBDA traits :
      Then(VisEvolution(dna_string), LAMBDA evolution :
        Ok([version |-> FormatVersion(dna_string),
            traits |-> traits,
            thresholds |-> FormatThresholds(dna_string),
            evolution |-> evolution])))

\* the lists of _map_to_simplified_value
SimpleTerrains == <<"mountains", "forests", "plains", "desert", "arctic", "coastal",
                    "islands", "jungle", "swamp", "underground", "mixed">>

SimpleClimates == <<"tropical", "arid", "temperate", "cold", "arctic", "varied">>

map_to_simplified_value(trait_name, value) ==
    LET prevalence == DigitOr(value, 1, 5)
        intensity == DigitOr(value, 2, 3)
    IN  IF trait_name = "terrain" THEN SimpleTerrains[(prevalence % Len(SimpleTerrains)) + 1]
        ELSE IF trait_name = "climate" THEN SimpleClimates[(prevalence % Len(SimpleClimates)) + 1]
        ELSE IF trait_name = "resources"
             THEN (IF prevalence >= 7 THEN "abundant"
                   ELSE IF prevalence >= 4 THEN "balanced" ELSE "scarce")
        ELSE IF trait_name = "conflict"
             THEN (IF prevalence >= 7 /\ intensity >= 4 THEN "open_war"
                   ELSE IF prevalence >= 5 THEN "skirmishes"
                   ELSE IF prevalence >= 3 THEN "cold_war" ELSE "peace")
        ELSE IF trait_name = "hazards"
             THEN (IF prevalence >= 7 THEN "deadly"
                   ELSE IF prevalence >= 4 THEN "dangerous" ELSE "safe")
        ELSE "balanced"

get_default_value(component) ==
    IF component = "terrain" THEN "mixed"
    ELSE IF component = "climate" THEN "temperate"
    ELSE IF component = "resources" THEN "balanced"
    ELSE IF component = "conflict" THEN "peace"
    ELSE IF component = "hazards" THEN "safe"
    ELSE "balanced"

\* the traits to_simple_traits maps
MappedTraits == {"climate", "terrain", "resources", "hazards", "conflict"}

required_components == <<"climate", "terrain", "resources", "conflict", "hazards">>

\* one pass of the loop over trait_section.split(";")
SimpleTraitPart(trait_part) ==
    IF Contains(trait_part, ":")
    THEN Then(Unpack2(Split(trait_part, ":")), LAMBDA nv :
            IF nv[1] \in MappedTraits
            THEN Ok(<<[k |-> nv[1], v |-> map_to_simplified_value(nv[1], nv[2])]>>)
            ELSE Ok(<<>>))
    ELSE Ok(<<>>)

\* the loop over required_components: a missing one gets its default
SimpleDefaults(traits_dict) ==
    DictFrom(traits_dict,
        [n \in 1..Len(required_components) |->
            [k |-> required_components[n],
             v |-> IF Has(traits_dict, required_components[n])
                   THEN Get(traits_dict, required_components[n])
                   ELSE get_default_value(required_components[n])]])

\* to_simple_traits once trait_section is read
SimpleTraitsOf(trait_section) ==
    IF trait_section = "" THEN Ok(<<>>)
    ELSE Then(Collect([n \in 1..Len(Split(trait_section, ";")) |->
                        SimpleTraitPart(Split(trait_section, ";")[n])]),
              LAMBDA passes : Ok(SimpleDefaults(DictFrom(<<>>, Assigned(passes)))))

to_simple_traits(advanced_dna) ==
    SimpleTraitsOf(IF Contains(advanced_dna, "TRAITS{")
                   THEN SectionAfter(advanced_dna, "TRAITS{") ELSE "")

\* WorldDNA.from_advanced_dna: the traits are replaced and encoded as they are
from_advanced_dna(advanced_dna) ==
    Then(to_simple_traits(advanced_dna), LAMBDA simplified_traits :
        Then(encode_dna("WorldDNA", simplified_traits), LAMBDA dna_string :
            Ok(Instance("WorldDNA", dna_string, simplified_traits))))

(***************************************************************************)
(* A caller handing one advanced DNA string to a parser.                   *)
(***************************************************************************)

\* the start of a string: a version, or none
VersionParts == {"V1.6 ", ""}

\* entries of TRAITS{}: well formed, malformed values, no ":", two ":"
TraitEntries == {"climate:93", "terrain:85", "conflict:74", "hazards:x", "resources:0",
                 "society:55", "magic", "a:b:c"}

\* second entries of TRAITS{}: well formed, digits outside the ranges, empty
MoreTraitEntries == {"climate:11", "hazards:72", "terrain:00", "resources:19", ""}

\* TRAITS{} blocks: absent, empty, one entry, two entries
TraitBlocks ==
    {"", "TRAITS{} "}
    \cup {"TRAITS{" \o e \o "} " : e \in TraitEntries}
    \cup {"TRAITS{" \o e \o ";" \o f \o "} " : e \in TraitEntries, f \in MoreTraitEntries}

ThreshBlocks == {"", "THRESH{high_magic;unstable} "}

\* EVO{} blocks: absent, as generated, with "[" only before the ":"
EvoBlocks == {"", "EVO{climate:ACCELERATING[93,95,95,95]} ", "EVO{a[b]:c} "}

\* REG{} blocks: absent, well formed, an entry with two "="
RegBlocks == {"", "REG{north:climate=93,terrain=85} ", "REG{n:a=b=c} "}

\* CHAIN{} blocks: absent, well formed, an entry with two "->"
ChainBlocks == {"", "CHAIN{high_magic->magical_crisis} ", "CHAIN{a->b->c} "}

\* the strings handed to the parsers
AdvancedStrings ==
    {v \o t \o h \o e \o r \o c :
        v \in VersionParts, t \in TraitBlocks, h \in ThreshBlocks,
        e \in EvoBlocks, r \in RegBlocks, c \in ChainBlocks}

VARIABLES pin, pres, pop

parseVars == <<pin, pres, pop>>

ParseInit ==
    /\ pin \in AdvancedStrings
    /\ pres = Raise("unset")
    /\ pop = "init"

\* decoder.format_dna_for_decoding(pin)
CallFormat ==
    /\ pop = "init"
    /\ pres' = format_dna_for_decoding(pin)
    /\ pop' = "format"
    /\ UNCHANGED pin

\* generator.to_simple_traits(pin)
CallToSimple ==
    /\ pop = "init"
    /\ pres' = to_simple_traits(pin)
    /\ pop' = "to_simple_traits"
    /\ UNCHANGED pin

\* dna_visualizer.parse_advanced_dna(pin)
CallParse ==
    /\ pop = "init"
    /\ pres' = parse_advanced_dna(pin)
    /\ pop' = "parse_advanced_dna"
    /\ UNCHANGED pin

\* WorldDNA.from_advanced_dna(pin)
CallFromAdvanced ==
    /\ pop = "init"
    /\ pres' = from_advanced_dna(pin)
    /\ pop' = "from_advanced_dna"
    /\ UNCHANGED pin

(***************************************************************************)
(* Strings returned by generate_dna and handed to the parsers.             *)
(***************************************************************************)

\* decoder.format_dna_for_decoding(generator.generate_dna(bias))
FormatGenerated ==
    /\ gop = "generate_dna"
    /\ pop = "idle"
    /\ pin' = gdna
    /\ pres' = format_dna_for_decoding(gdna)
    /\ pop' = "format"
    /\ UNCHANGED genVars

\* WorldDNA.from_advanced_dna(generator.generate_dna(bias)), as
\* generate_advanced_world does
FromAdvancedGenerated ==
    /\ gop = "generate_dna"
    /\ pop = "idle"
    /\ pin' = gdna
    /\ pres' = from_advanced_dna(gdna)
    /\ pop' = "from_advanced_dna"
    /\ UNCHANGED genVars

(***************************************************************************)
(* Concurrent callers.  The module calls random.randint, random.random and *)
(* random.choice of the module "random": one generator for the process,    *)
(* seeded by random.seed, that every draw of every caller advances.        *)
(***************************************************************************)

\* the arguments of random.seed that are explored
Seeds == 0..2

\* the callers that run calculate_evolution at the same time
Callers == {1, 2}

\* the outputs of the process-wide generator after random.seed(seed), in order
RandomStream(seed) == [n \in 1..(4 * MaxSteps) |-> (seed + n * n) % 3]

\* the scores the callers project
ProjectedValues == {<<5, 3>>, <<9, 5>>}

\* the patterns the callers project: one that draws and one that does not
ProjectedPatterns == {"UNSTABLE", "DECLINING"}

VARIABLES rseed, rpos, rcalls, rseries

rngVars == <<rseed, rpos, rcalls, rseries>>

\* random.seed(rseed), then each caller enters calculate_evolution
RngInit ==
    /\ rseed \in Seeds
    /\ rpos = 0
    /\ rcalls \in [Callers -> [trait_value : ProjectedValues, pattern : ProjectedPatterns,
                               time_steps : 1..MaxSteps]]
    /\ rseries = [c \in Callers |-> <<rcalls[c].trait_value>>]

\* the number of draws one pass of the loop takes
DrawsPerStep(pattern) == IF pattern = "UNSTABLE" THEN 2 ELSE 0

\* one pass of the loop of calculate_evolution by caller c: its random.randint
\* calls take the next outputs of the process-wide generator
EvolutionStep(c) ==
    /\ Len(rseries[c]) - 1 < rcalls[c].time_steps
    /\ LET n == Len(rseries[c]) - 1
           draws == [i \in 1..(2 * n + 2) |->
                        IF i <= 2 * n THEN 0 ELSE RandomStream(rseed)[rpos + i - 2 * n]]
       IN  rseries' = [rseries EXCEPT
                          ![c] = EvolutionLoop(@, rcalls[c].pattern, n, n + 1, draws)]
    /\ rpos' = rpos + DrawsPerStep(rcalls[c].pattern)
    /\ UNCHANGED <<rseed, rcalls>>

(***************************************************************************)
(* Specifications.                                                         *)
(***************************************************************************)

vars == <<codecVars, dnaVars, genVars, parseVars, rngVars>>

CodecIdle ==
    /\ ccls = "WorldDNA"
    /\ cin = [kind |-> "none", s |-> <<>>, draws |-> <<>>]
    /\ cstr = Ok(<<>>)
    /\ cvec = NoVector
    /\ cenc = NoVector
    /\ cop = "idle"

DnaIdle ==
    /\ inst = NoInstance
    /\ origin = "none"
    /\ prev = NoInstance
    /\ other = NoInstance
    /\ recv = NoInstance
    /\ mate = NoInstance
    /\ op = "idle"
    /\ rate = 0
    /\ exc = "none"

GenIdle ==
    /\ gdraws = <<>>
    /\ gtraits = <<>>
    /\ gprev = <<>>
    /\ ginput = <<>>
    /\ gbias = <<>>
    /\ gmet = {}
    /\ gcall = NoCall
    /\ gseries = <<>>
    /\ gdna = ""
    /\ gagain = ""
    /\ gop = "idle"
    /\ gn = 0
    /\ gtrends = NoTrends
    /\ gpatterns = <<>>

ParseIdle ==
    /\ pin = ""
    /\ pres = Raise("unset")
    /\ pop = "idle"

RngIdle ==
    /\ rseed = 0
    /\ rpos = 0
    /\ rcalls = <<>>
    /\ rseries = <<>>

CodecFrame == UNCHANGED <<dnaVars, genVars, parseVars, rngVars>>

CodecStep ==
    \/ CallDecode /\ CodecFrame
    \/ CallGenerate /\ CodecFrame
    \/ CallEncode /\ CodecFrame
    \/ CallDecodeEncoded /\ CodecFrame

InitCodec == CodecInit /\ DnaIdle /\ GenIdle /\ ParseIdle /\ RngIdle

SpecCodec == InitCodec /\ [][CodecStep]_vars

DnaFrame == UNCHANGED <<codecVars, genVars, parseVars, rngVars>>

DnaStep ==
    \/ Mutate /\ DnaFrame
    \/ Crossover /\ DnaFrame
    \/ FromDict /\ DnaFrame
    \/ FromEmptyDict /\ DnaFrame

InitDna == DnaInit /\ CodecIdle /\ GenIdle /\ ParseIdle /\ RngIdle

SpecDna == InitDna /\ [][DnaStep]_vars

GenFrame == UNCHANGED <<codecVars, dnaVars, parseVars, rngVars>>

GenStep ==
    \/ ApplyBias /\ GenFrame
    \/ ApplyChainReactions /\ GenFrame
    \/ CalculateEvolution /\ GenFrame
    \/ CheckThresholds /\ GenFrame
    \/ GenerateDna /\ GenFrame
    \/ GenerateDnaAgain /\ GenFrame
    \/ IdentifyEvolutionPatterns /\ GenFrame
    \/ FormatGenerated /\ UNCHANGED <<codecVars, dnaVars, rngVars>>
    \/ FromAdvancedGenerated /\ UNCHANGED <<codecVars, dnaVars, rngVars>>

InitGen == GenInit /\ CodecIdle /\ DnaIdle /\ ParseIdle /\ RngIdle

SpecGen == InitGen /\ [][GenStep]_vars

ParseFrame == UNCHANGED <<codecVars, dnaVars, genVars, rngVars>>

ParseStep ==
    \/ CallFormat /\ ParseFrame
    \/ CallToSimple /\ ParseFrame
    \/ CallFromAdvanced /\ ParseFrame
    \/ CallParse /\ ParseFrame

InitParse == ParseInit /\ CodecIdle /\ DnaIdle /\ GenIdle /\ RngIdle

SpecParse == InitParse /\ [][ParseStep]_vars

\* a caller that holds an instance, or a scored vector, and calls the operations
\* that take it as receiver or argument
InitValue ==
    /\ (DnaInit /\ GenIdle) \/ (DnaIdle /\ GenInit)
    /\ CodecIdle
    /\ ParseIdle
    /\ RngIdle

ValueStep ==
    \/ Mutate /\ DnaFrame
    \/ Crossover /\ DnaFrame
    \/ (gop # "idle" /\ ApplyChainReactions) /\ GenFrame

SpecValue == InitValue /\ [][ValueStep]_vars

\* callers that project at the same time, in one process
RngFrame == UNCHANGED <<codecVars, dnaVars, genVars, parseVars>>

InitShared == RngInit /\ CodecIdle /\ DnaIdle /\ GenIdle /\ ParseIdle

SharedStep ==
    \/ (\E c \in Callers : EvolutionStep(c)) /\ RngFrame

SpecShared == InitShared /\ [][SharedStep]_vars


(***************************************************************************)
(* Properties of the categorical codec and of the genetic operators.       *)
(***************************************************************************)

\* traits holds every component of cls exactly once, each with a value of its domain
ValidVector(cls, traits) ==
    /\ \A i \in 1..Len(COMPONENTS(cls)) :
          Cardinality({j \in 1..Len(traits) : traits[j].k = COMPONENTS(cls)[i].k}) = 1
    /\ \A j \in 1..Len(traits) :
          /\ Has(COMPONENTS(cls), traits[j].k)
          /\ traits[j].v \in Range(Get(COMPONENTS(cls), traits[j].k))

\* C1: for every input string the categorical decoder returns, without raising, a
\* vector with every schema component exactly once and every value in its domain.
C1_TotalDecode ==
    cop \in {"decode", "redecode"} => (cvec.exc = "none" /\ ValidVector(ccls, cvec.val))

\* a string longer than expected with an unparseable chunk and an index beyond a domain
C1_Witness ==
    /\ cop = "decode"
    /\ Len(cin.s) > 2 * NumComponents(ccls)
    /\ \E i \in 1..NumComponents(ccls) : IntBase16(Chunks(cin.s)[i]).exc = "ValueError"
    /\ \E i \in 1..NumComponents(ccls) :
          /\ IntBase16(Chunks(cin.s)[i]).exc = "none"
          /\ IntBase16(Chunks(cin.s)[i]).val >= Len(COMPONENTS(ccls)[i].v)
    /\ cvec.exc = "none"
    /\ ValidVector(ccls, cvec.val)

\* C2: decode(encode(v)) = v for every vector v returned by random generation or by
\* decoding a string, for both schemas.
C2_RoundTrip ==
    cop = "redecode" => (cstr.exc = "none" /\ cvec.exc = "none" /\ cvec.val = cenc.val)

\* a decoded vector holding a value whose index needs a hex letter, re-decoded
C2_Witness ==
    /\ cop = "redecode"
    /\ cin.kind = "string"
    /\ cvec.exc = "none"
    /\ \E i \in 1..Len(cvec.val) : ListIndex(COMPONENTS(ccls)[i].v, cvec.val[i].v).val >= 10
    /\ cvec.val = cenc.val

\* obj.traits[key]
Trait(obj, key) == Get(obj.traits, key)

IsNPC(obj) == obj.cls = "NPCPersonalityDNA"

\* C3 as stated: every component of crossover(a, b), secondary_motivation included,
\* equals a's or b's value for that component.
C3_Original ==
    op = "crossover" =>
        /\ exc = "none"
        /\ Keys(inst.traits) = Keys(prev.traits)
        /\ \A i \in 1..Len(inst.traits) :
              inst.traits[i].v \in {prev.traits[i].v, other.traits[i].v}

\* C3 amended: every component of crossover(a, b) equals a's or b's value, except
\* that an NPC's secondary_motivation is "none" when the secondary motivation it
\* inherited equals the primary motivation it inherited.
C3_CrossoverParentage ==
    op = "crossover" =>
        /\ exc = "none"
        /\ Keys(inst.traits) = Keys(prev.traits)
        /\ \A i \in 1..Len(inst.traits) :
              \/ inst.traits[i].v \in {prev.traits[i].v, other.traits[i].v}
              \/ /\ IsNPC(inst)
                 /\ inst.traits[i].k = "secondary_motivation"
                 /\ inst.traits[i].v = "none"
                 /\ Trait(inst, "primary_motivation") \in {prev.traits[i].v, other.traits[i].v}

\* a child whose secondary motivation is "none" although no parent has "none"
C3_Witness ==
    /\ op = "crossover"
    /\ exc = "none"
    /\ IsNPC(inst)
    /\ Trait(inst, "secondary_motivation") = "none"
    /\ Trait(prev, "secondary_motivation") # "none"
    /\ Trait(other, "secondary_motivation") # "none"
    /\ Trait(prev, "primary_motivation") # Trait(other, "primary_motivation")

\* C4 as stated: the traits of v.mutate(0.0) equal the traits of v for every
\* instance v, however it was obtained.
C4_Original ==
    (op = "mutate" /\ rate = 0) => (exc = "none" /\ inst.traits = prev.traits)

\* C4 amended: the traits of v.mutate(0.0) equal the traits of v, except that for an
\* NPC instance whose secondary_motivation equals its primary_motivation (a decoded
\* string can give one) secondary_motivation becomes "none" and nothing else changes.
C4_MutationIdentity ==
    (op = "mutate" /\ rate = 0) =>
        /\ exc = "none"
        /\ inst.traits =
              IF IsNPC(prev) /\ Trait(prev, "secondary_motivation") = Trait(prev, "primary_motivation")
              THEN Put(prev.traits, "secondary_motivation", "none")
              ELSE prev.traits

\* a generated NPC with two different motivations, unchanged by mutate(0.0)
C4_Witness ==
    /\ op = "mutate"
    /\ rate = 0
    /\ exc = "none"
    /\ origin = "generated"
    /\ IsNPC(prev)
    /\ Trait(prev, "secondary_motivation") \notin {"none", Trait(prev, "primary_motivation")}
    /\ Trait(prev, "primary_motivation") # "power"
    /\ inst.traits = prev.traits

\* C5 as stated: every component of v.mutate(1.0), secondary_motivation included,
\* differs from the same component of v.
C5_Original ==
    (op = "mutate" /\ rate = 10) =>
        /\ exc = "none"
        /\ \A i \in 1..Len(prev.traits) : inst.traits[i].v # prev.traits[i].v

\* C5 amended: every component of v.mutate(1.0) differs from the same component of
\* v, except that an NPC's secondary_motivation stays "none" when it was "none" and
\* the secondary motivation drawn equals the primary motivation drawn.
C5_MutationCoverage ==
    (op = "mutate" /\ rate = 10) =>
        /\ exc = "none"
        /\ Keys(inst.traits) = Keys(prev.traits)
        /\ \A i \in 1..Len(prev.traits) :
              \/ inst.traits[i].v # prev.traits[i].v
              \/ /\ IsNPC(prev)
                 /\ prev.traits[i].k = "secondary_motivation"
                 /\ prev.traits[i].v = "none"

\* an NPC without secondary motivation that has none after mutate(1.0) either
C5_Witness ==
    /\ op = "mutate"
    /\ rate = 10
    /\ exc = "none"
    /\ IsNPC(prev)
    /\ Trait(prev, "secondary_motivation") = "none"
    /\ Trait(inst, "secondary_motivation") = "none"
    /\ Trait(inst, "primary_motivation") # Trait(prev, "primary_motivation")

\* C6: every NPC instance returned by random generation, mutate or crossover has a
\* secondary_motivation that differs from its primary_motivation or is "none".
C6_NPCInvariant ==
    (IsNPC(inst) /\ (op \in {"mutate", "crossover"} \/ (op = "new" /\ origin = "generated"))) =>
        /\ exc = "none"
        /\ inst.traits = decode_dna(inst.cls, inst.dna_string).val
        /\ \/ Trait(inst, "secondary_motivation") # Trait(inst, "primary_motivation")
           \/ Trait(inst, "secondary_motivation") = "none"

\* a mutation that moved the primary motivation onto the secondary one
C6_Witness ==
    /\ op = "mutate"
    /\ rate = 2
    /\ exc = "none"
    /\ IsNPC(inst)
    /\ Trait(prev, "secondary_motivation") # "none"
    /\ Trait(prev, "secondary_motivation") # Trait(prev, "primary_motivation")
    /\ Trait(inst, "secondary_motivation") = "none"


(***************************************************************************)
(* Properties of the scored generator.                                     *)
(***************************************************************************)

\* a scored value within the ranges
InRange(value) == value[1] \in 1..9 /\ value[2] \in 1..5

\* the text between tag and the next "}" of a DNA string, "" without the tag
Section(dna, tag) == IF Contains(dna, tag) THEN SectionAfter(dna, tag) ELSE ""

\* the entries of a section
Entries(dna, tag) ==
    LET section == Section(dna, tag) IN IF section = "" THEN <<>> ELSE Split(section, ";")

\* the value tokens written in TRAITS{}
TraitTokens(dna) ==
    LET entries == Entries(dna, "TRAITS{")
    IN  [n \in 1..Len(entries) |-> Split(entries[n], ":")[2]]

\* the value tokens written in EVO{}, entry after entry
EvoTokens(dna) ==
    LET entries == Entries(dna, "EVO{")
    IN  Join([n \in 1..Len(entries) |-> Split(Split(Split(entries[n], "[")[2], "]")[1], ",")])

\* a token of exactly two digits, the first in 1..9 and the second in 1..5
TwoDigits(token) ==
    /\ Len(token) = 2
    /\ IsDigit(CharAt(token, 1)) /\ DigitValue(CharAt(token, 1)) \in 1..9
    /\ IsDigit(CharAt(token, 2)) /\ DigitValue(CharAt(token, 2)) \in 1..5

\* C7: from base generation on, after any sequence of bias, chain reactions and
\* evolution projection every scored value has prevalence in 1..9 and intensity in
\* 1..5, and every value generate_dna writes in TRAITS{} and EVO{} is two digits
\* within those ranges.
C7_Clamping ==
    /\ \A n \in 1..Len(gtraits) : InRange(gtraits[n].v)
    /\ \A m \in 1..Len(gseries) : InRange(gseries[m])
    /\ gop = "evolve" => Len(gseries) >= 1
    /\ gop = "generate_dna" =>
          LET trait_tokens == TraitTokens(gdna)
              evo_tokens == EvoTokens(gdna)
          IN  /\ Len(trait_tokens) = Len(TraitKeys)
              /\ \A n \in 1..Len(trait_tokens) : TwoDigits(trait_tokens[n])
              /\ \A n \in 1..Len(evo_tokens) : TwoDigits(evo_tokens[n])

\* a bias of +100 clamped to <<9, 5>> and written in TRAITS{} and in EVO{}
C7_Witness ==
    /\ gop = "generate_dna"
    /\ Has(gbias, "political.conflict")
    /\ Get(gbias, "political.conflict") = <<100, 100>>
    /\ Get(gprev, "political.conflict") = <<1, 1>>
    /\ Get(gtraits, "political.conflict") = <<9, 5>>
    /\ Contains(gdna, "conflict:95;")
    /\ Contains(gdna, "conflict:ACCELERATING[95,95,95,95]")

\* the traits named in the effects of a reaction triggered by met_thresholds
Affected(met_thresholds) ==
    UNION {Range(Keys(chain_reactions[r].v.effects)) :
            r \in {r \in 1..Len(chain_reactions) : chain_reactions[r].v.trigger \in met_thresholds}}

\* C8: apply_chain_reactions leaves the set of traits and every prevalence as they
\* were, and changes the intensity of no trait other than those named in the
\* effects of a triggered reaction.
C8_ChainScope ==
    gop = "chain" =>
        /\ Keys(gtraits) = Keys(gprev)
        /\ \A n \in 1..Len(gtraits) :
              /\ gtraits[n].v[1] = gprev[n].v[1]
              /\ gtraits[n].v[2] # gprev[n].v[2] => gtraits[n].k \in Affected(gmet)

\* both reactions triggered on a biased vector: several intensities change
C8_Witness ==
    /\ gop = "chain"
    /\ gn = 2
    /\ {"high_magic", "unstable"} \subseteq gmet
    /\ Cardinality({n \in 1..Len(gtraits) : gtraits[n].v[2] # gprev[n].v[2]}) >= 4
    /\ Keys(gtraits) = Keys(gprev)
    /\ \A n \in 1..Len(gtraits) : gtraits[n].v[1] = gprev[n].v[1]

\* C11: two runs of generate_dna that receive the same bias and the same draws
\* return the same string, character for character, the order of the names inside
\* THRESH{} included.
C11_Deterministic ==
    gop = "again" => gagain = gdna

(***************************************************************************)
(* Properties of the parsers of the advanced DNA grammar.                  *)
(***************************************************************************)

\* C9: format_dna_for_decoding never raises, whatever the entries inside TRAITS{},
\* EVO{}, REG{} and CHAIN{}, and a TRAITS{}, THRESH{} or EVO{} section that is
\* absent from the string yields an empty collection.
C9_ParserTotal ==
    pop = "format" =>
        /\ pres.exc = "none"
        /\ ~Contains(pin, "TRAITS{") => pres.val.traits = <<>>
        /\ ~Contains(pin, "THRESH{") => pres.val.thresholds = <<>>
        /\ ~Contains(pin, "EVO{") => pres.val.evolution = <<>>

\* the traits of the result of to_simple_traits or of from_advanced_dna
SimplifiedTraits == IF pop = "from_advanced_dna" THEN pres.val.traits ELSE pres.val

\* C10: for every advanced DNA string, to_simple_traits and the traits of
\* from_advanced_dna are a complete WorldDNA vector: every component of the schema
\* present once with a value of its domain.
C10_SimplifiedComplete ==
    pop \in {"to_simple_traits", "from_advanced_dna"} =>
        /\ pres.exc = "none"
        /\ ValidVector("WorldDNA", SimplifiedTraits)

(***************************************************************************)
(* The categorical decoder against its reference, and the empty string.    *)
(***************************************************************************)

\* the reference: s right-padded with "0" to 2 x (number of components), component
\* i from the i-th 2-character token, characters beyond that never read
ReferenceDecode(cls, s) ==
    LET n == NumComponents(cls)
        padded == IF Len(s) < 2 * n THEN s \o [j \in 1..(2 * n - Len(s)) |-> "0"] ELSE s
    IN  [i \in 1..n |->
            LET token == <<padded[2 * i - 1], padded[2 * i]>>
                parsed == IntBase16(token)
                domain == COMPONENTS(cls)[i].v
            IN  [k |-> COMPONENTS(cls)[i].k,
                 v |-> IF parsed.exc = "none"
                       THEN domain[(parsed.val % Len(domain)) + 1]
                       ELSE domain[1]]]

FirstValues(cls) ==
    [i \in 1..NumComponents(cls) |-> [k |-> COMPONENTS(cls)[i].k, v |-> COMPONENTS(cls)[i].v[1]]]

\* C13: an instance built out of the empty string - cls(""), or from_dict of a
\* record whose dna_string is empty - has for every component the first value of
\* its domain, as _decode_dna("") returns; no random value is drawn.
C13_EmptyString ==
    ((op = "new" /\ origin = "empty") \/ op = "from_empty_dict") =>
        /\ exc = "none"
        /\ inst.traits = FirstValues(inst.cls)
        /\ inst.traits = decode_dna(inst.cls, <<>>).val

\* C18: for every instance d produced by generation, mutation or crossover,
\* from_dict(to_dict(d)) has the same dna_string and the same traits as d.
C18_RecordRoundTrip ==
    op = "from_dict" =>
        /\ exc = "none"
        /\ inst.cls = prev.cls
        /\ inst.dna_string = prev.dna_string
        /\ inst.traits = prev.traits

\* the record of an NPC returned by a crossover that reset its secondary motivation
C18_Witness ==
    /\ op = "from_dict"
    /\ IsNPC(prev)
    /\ other # NoInstance
    /\ Trait(prev, "secondary_motivation") = "none"
    /\ Trait(other, "secondary_motivation") # "none"
    /\ Trait(prev, "primary_motivation") # COMPONENTS(prev.cls)[FreeA(prev.cls)].v[1]
    /\ inst = prev

(***************************************************************************)
(* Properties of the thresholds and of the stages of generate_dna.         *)
(***************************************************************************)

\* the vector with every intensity replaced by value
WithIntensity(traits, value) ==
    [n \in 1..Len(traits) |-> [k |-> traits[n].k, v |-> <<traits[n].v[1], value>>]]

\* the (trait, minimum) conditions of the threshold name
Conditions(name) == Get(critical_thresholds, name)

\* C14: check_thresholds returns exactly the threshold names all of whose (trait,
\* minimum) conditions hold with the trait's prevalence >= minimum; a threshold with
\* a condition on a trait missing from the vector is not in the result; the
\* intensities do not influence the result.
C14_Thresholds ==
    gop = "check" =>
        /\ gmet \subseteq ThresholdNames
        /\ \A name \in ThresholdNames :
              name \in gmet <=>
                  \A c \in 1..Len(Conditions(name)) :
                      \E n \in 1..Len(gtraits) :
                          /\ gtraits[n].k = Conditions(name)[c].k
                          /\ gtraits[n].v[1] >= Conditions(name)[c].v
        /\ \A value \in 1..5 : check_thresholds(WithIntensity(gtraits, value)) = gmet

\* a vector without political.stability whose conflict is high: "unstable" is not
\* met; "high_magic" is met although the intensity of magical.prevalence is below 7
C14_Witness ==
    /\ gop = "check"
    /\ ~Has(gtraits, "political.stability")
    /\ Get(gtraits, "political.conflict")[1] >= 4
    /\ gmet = {"high_magic"}
    /\ Get(gtraits, "magical.prevalence")[2] < 7

\* the base vector with each bias delta added and the sum clamped, trait by trait
Biased(base, bias) ==
    [n \in 1..Len(base) |->
        IF \E b \in 1..Len(bias) : bias[b].k = base[n].k
        THEN LET delta == Get(bias, base[n].k)
                 prevalence == base[n].v[1] + delta[1]
                 intensity == base[n].v[2] + delta[2]
             IN  [k |-> base[n].k,
                  v |-> <<IF prevalence > 9 THEN 9 ELSE IF prevalence < 1 THEN 1 ELSE prevalence,
                          IF intensity > 5 THEN 5 ELSE IF intensity < 1 THEN 1 ELSE intensity>>]
        ELSE base[n]]

\* the bias without the keys that name no generated trait
KnownBias(bias) == SelectSeq(bias, LAMBDA b : b.k \in Range(TraitKeys))

MajorPattern(value) ==
    IF value[1] >= 7 /\ value[2] >= 4 THEN "ACCELERATING"
    ELSE IF value[1] <= 3 /\ value[2] <= 2 THEN "DECLINING"
    ELSE ""

\* the entries of EVO{} as <<name, pattern>>
EvoEntries(dna) ==
    LET entries == Entries(dna, "EVO{")
    IN  [n \in 1..Len(entries) |->
            <<Split(entries[n], ":")[1], Split(Split(entries[n], ":")[2], "[")[1]>>]

\* C16: the EVO{} block of a string returned by generate_dna has one entry for
\* exactly each trait classified ACCELERATING or DECLINING and none with another
\* pattern; EVO{} is omitted when there is no such trait, and THRESH{} is omitted
\* exactly when no threshold is met.
C16_EvoBlock ==
    gop = "generate_dna" =>
        LET evo == EvoEntries(gdna)
            major == {n \in 1..Len(gtraits) : MajorPattern(gtraits[n].v) # ""}
        IN  /\ Len(evo) = Cardinality(major)
            /\ {evo[n] : n \in 1..Len(evo)} =
                  {<<Split(gtraits[n].k, ".")[2], MajorPattern(gtraits[n].v)>> : n \in major}
            /\ Contains(gdna, "EVO{") <=> major # {}
            /\ Contains(gdna, "THRESH{") <=> gmet # {}
            /\ ~Contains(gdna, "UNSTABLE") /\ ~Contains(gdna, "STABILIZING")

\* a string with an ACCELERATING and a DECLINING entry for a vector that also has
\* UNSTABLE traits, which have no entry
C16_Witness ==
    /\ gop = "generate_dna"
    /\ Contains(gdna, "society:DECLINING[")
    /\ Contains(gdna, "conflict:ACCELERATING[")
    /\ Get(gtraits, "physical.climate") = <<5, 5>>
    /\ ~Contains(gdna, "climate:UNSTABLE")
    /\ Len(EvoEntries(gdna)) = 2
    /\ Contains(gdna, "THRESH{unstable}")

(***************************************************************************)
(* Properties of the parsers: malformed value tokens.                      *)
(***************************************************************************)

\* a value token with fewer than two characters or a non-digit among the first two
Malformed(value) ==
    \/ Len(value) < 2
    \/ ~IsDigit(CharAt(value, 1))
    \/ ~IsDigit(CharAt(value, 2))

\* C17: format_dna_for_decoding and parse_advanced_dna give a TRAITS{} entry whose
\* value token is malformed the default prevalence 5 and intensity 5.
C17_MalformedDefault ==
    (pop \in {"format", "parse_advanced_dna"} /\ pres.exc = "none") =>
        LET entries == Entries(pin, "TRAITS{")
            parts == [n \in 1..Len(entries) |-> Split(entries[n], ":")]
        IN  \A n \in 1..Len(entries) :
                (/\ Len(parts[n]) = 2
                 /\ Malformed(parts[n][2])
                 /\ \A m \in (n + 1)..Len(entries) : parts[m][1] # parts[n][1]) =>
                    /\ Has(pres.val.traits, parts[n][1])
                    /\ Get(pres.val.traits, parts[n][1]).prevalence = 5
                    /\ Get(pres.val.traits, parts[n][1]).intensity = 5

(***************************************************************************)
(* Properties of the evolution series.                                     *)
(***************************************************************************)

\* the values written between "[" and "]" of each EVO{} entry
EvoSeries(dna) ==
    LET entries == Entries(dna, "EVO{")
    IN  [n \in 1..Len(entries) |-> Split(Split(Split(entries[n], "[")[2], "]")[1], ",")]

\* C19: calculate_evolution(value, pattern, steps) returns exactly steps + 1
\* values for every pattern, the first being value; every EVO{} entry generate_dna
\* serializes has exactly 4 values.
C19_SeriesLength ==
    /\ gop = "evolve" =>
          /\ Len(gseries) = gcall.time_steps + 1
          /\ gseries[1] = Get(gtraits, gcall.trait)
    /\ gop = "generate_dna" =>
          LET series == EvoSeries(gdna)
          IN  /\ Len(time_periods) = 4
              /\ \A n \in 1..Len(series) : Len(series[n]) = 4

\* an UNSTABLE projection over three steps whose values move
C19_Witness ==
    /\ gop = "evolve"
    /\ gcall.pattern = "UNSTABLE"
    /\ gcall.time_steps = 3
    /\ Len(gseries) = 4
    /\ gseries[2] # gseries[1]
    /\ gseries[4] # gseries[3]

(***************************************************************************)
(* Value semantics.                                                        *)
(***************************************************************************)

\* C20: mutate and crossover leave the traits and the dna_string of the receiver,
\* and of the other parent, as they were before the call and return another
\* instance; apply_chain_reactions leaves its input vector as it was.
C20_ValueSemantics ==
    /\ op = "mutate" => (exc = "none" /\ recv = prev)
    /\ op = "crossover" => (exc = "none" /\ recv = prev /\ mate = other)
    /\ gop = "chain" => ginput = gprev

\* a mutation at rate 1.0 that returned other traits and another dna_string
C20_Witness ==
    /\ op = "mutate"
    /\ rate = 10
    /\ \A i \in 1..Len(prev.traits) : inst.traits[i].v # prev.traits[i].v
    /\ inst.dna_string # prev.dna_string
    /\ recv = prev

\* the series caller c obtains when the callers run one after the other, caller 1
\* first: its draws follow those of the callers before it
SerialSeries(c) ==
    LET before == IF c = 1 THEN 0
                  ELSE rcalls[1].time_steps * DrawsPerStep(rcalls[1].pattern)
        draws == [i \in 1..(2 * rcalls[c].time_steps) |-> RandomStream(rseed)[before + i]]
    IN  calculate_evolution(rcalls[c].trait_value, rcalls[c].pattern,
                            rcalls[c].time_steps, draws)

Returned(c) == Len(rseries[c]) - 1 = rcalls[c].time_steps

\* C21: once the generator is seeded, the series each of two concurrent callers of
\* calculate_evolution obtains is the same under every interleaving of their
\* steps: it is the one obtained when the callers run one after the other
C21_Interleaving ==
    (\A c \in Callers : Returned(c)) => \A c \in Callers : rseries[c] = SerialSeries(c)

(***************************************************************************)
(* Properties of the grammar parser on generated strings.                  *)
(***************************************************************************)

\* the part of a trait key after the "."
ShortName(trait) == Split(trait, ".")[2]

\* the traits of the generated vector that have an EVO{} entry
MajorTraits == SelectSeq(gtraits, LAMBDA t : MajorPattern(t.v) # "")

\* C22: for every string s returned by generate_dna, format_dna_for_decoding(s)
\* has version "1.6", one trait per generated trait (16, keyed by the short name,
\* no two colliding) with the generated prevalence and intensity, a thresholds
\* list whose elements are exactly the met thresholds, and one evolution entry per
\* EVO{} trait with its pattern and its four values under PAST, PRESENT, NEAR, FAR.
C22_ParserInverts ==
    (pop = "format" /\ gop # "idle") =>
        /\ pin = gdna
        /\ pres.exc = "none"
        /\ pres.val.version = "1.6"
        /\ Len(pres.val.traits) = 16
        /\ Len(gtraits) = 16
        /\ \A n \in 1..Len(gtraits) :
              /\ pres.val.traits[n].k = ShortName(gtraits[n].k)
              /\ pres.val.traits[n].v.prevalence = gtraits[n].v[1]
              /\ pres.val.traits[n].v.intensity = gtraits[n].v[2]
        /\ \A n, m \in 1..Len(gtraits) :
              ShortName(gtraits[n].k) = ShortName(gtraits[m].k) => n = m
        /\ Range(pres.val.thresholds) = gmet
        /\ Len(pres.val.thresholds) = Cardinality(gmet)
        /\ Len(pres.val.evolution) = Len(MajorTraits)
        /\ \A n \in 1..Len(MajorTraits) :
              LET entry == pres.val.evolution[n]
                  series == calculate_evolution(MajorTraits[n].v, MajorPattern(MajorTraits[n].v),
                                                3, <<>>)
              IN  /\ entry.k = ShortName(MajorTraits[n].k)
                  /\ entry.v.pattern = MajorPattern(MajorTraits[n].v)
                  /\ entry.v.time_periods =
                        <<[k |-> "PAST", v |-> ScoreToken(series[1])],
                          [k |-> "PRESENT", v |-> ScoreToken(series[2])],
                          [k |-> "NEAR", v |-> ScoreToken(series[3])],
                          [k |-> "FAR", v |-> ScoreToken(series[4])]>>

\* a generated string with two met thresholds, a DECLINING and an ACCELERATING
\* entry, read back by the parser
C22_Witness ==
    /\ pop = "format"
    /\ gop = "generate_dna"
    /\ Cardinality(gmet) = 2
    /\ Len(pres.val.thresholds) = 2
    /\ Has(pres.val.evolution, "society")
    /\ Get(pres.val.evolution, "society").pattern = "DECLINING"
    /\ Has(pres.val.evolution, "conflict")
    /\ Get(pres.val.evolution, "conflict").pattern = "ACCELERATING"
    /\ Get(Get(pres.val.evolution, "conflict").time_periods, "FAR") = "95"

(***************************************************************************)
(* Properties of the projection: the jitter of UNSTABLE.                   *)
(***************************************************************************)

\* the jitter of the n-th step of the call, from its draws
Jitter(n) == <<RandInt(-1, 1, gcall.draws[2 * n - 1]), RandInt(-1, 1, gcall.draws[2 * n])>>

\* C23: for pattern UNSTABLE each projection step computes, per dimension,
\* clamp(current + pattern delta + jitter), the jitter from {-1, 0, +1} being added
\* before the clamp (intensity 5 with delta +2 and jitter -1 gives 5).
C23_JitterBeforeClamp ==
    (gop = "evolve" /\ gcall.pattern = "UNSTABLE") =>
        \A n \in 1..gcall.time_steps :
            LET pattern_data == Get(evolution_patterns, "UNSTABLE")
            IN  /\ Jitter(n)[1] \in {-1, 0, 1} /\ Jitter(n)[2] \in {-1, 0, 1}
                /\ gseries[n + 1][1] =
                      Max(1, Min(9, gseries[n][1] + pattern_data.prevalence_mod + Jitter(n)[1]))
                /\ gseries[n + 1][2] =
                      Max(1, Min(5, gseries[n][2] + pattern_data.intensity_mod + Jitter(n)[2]))

(***************************************************************************)
(* Properties of the chain reactions: several reactions on one trait.      *)
(***************************************************************************)

\* an intensity within 1..5
ClampIntensity(i) == Max(1, Min(5, i))

\* C24: reactions that target the same trait are applied once each, in declaration
\* order (magical_crisis, then societal_collapse), the intensity being clamped to
\* 1..5 after each application: with high_magic and unstable met the intensity i of
\* cultural.society becomes clamp(clamp(i + 1) - 2), so 5 becomes 3 and 1 stays 1.
C24_ReactionOrder ==
    (gop = "chain" /\ Has(gprev, "cultural.society")) =>
        LET before == Get(gprev, "cultural.society")
            after == Get(gtraits, "cultural.society")
            crisis == IF "high_magic" \in gmet THEN ClampIntensity(before[2] + 1) ELSE before[2]
            collapse == IF "unstable" \in gmet THEN ClampIntensity(crisis - 2) ELSE crisis
        IN  /\ Keys(chain_reactions) = <<"magical_crisis", "societal_collapse">>
            /\ after = <<before[1], collapse>>
            /\ ({"high_magic", "unstable"} \subseteq gmet /\ before[2] = 5) => after[2] = 3
            /\ ({"high_magic", "unstable"} \subseteq gmet /\ before[2] = 1) => after[2] = 1

\* both reactions applied to a society of intensity 5, which becomes 3
C24_Witness ==
    /\ gop = "chain"
    /\ {"high_magic", "unstable"} \subseteq gmet
    /\ Has(gprev, "cultural.society")
    /\ Get(gprev, "cultural.society")[2] = 5
    /\ Get(gtraits, "cultural.society")[2] = 3

(***************************************************************************)
(* Properties of the patterns: the trend overrides.                        *)
(***************************************************************************)

\* C25: for every vector and every trends argument, each trait of the vector
\* listed under RISING is assigned ACCELERATING by identify_evolution_patterns and
\* each trait listed under FALLING is assigned DECLINING, whatever the base rule
\* assigned, or did not assign, to it.
C25_TrendOverride ==
    gop = "patterns" =>
        /\ \A t \in Range(gtrends.RISING) :
              Has(gtraits, t) => Has(gpatterns, t) /\ Get(gpatterns, t) = "ACCELERATING"
        /\ \A t \in Range(gtrends.FALLING) :
              Has(gtraits, t) => Has(gpatterns, t) /\ Get(gpatterns, t) = "DECLINING"

(***************************************************************************)
(* Properties of the grammar parser: the ranges of the parsed values.      *)
(***************************************************************************)

\* C26: for every input string, every trait format_dna_for_decoding returns has
\* prevalence in 1..9 and intensity in 1..5: digit tokens outside the ranges (such
\* as "00" or "19") and the malformed-token default are resolved to in-range
\* values.
C26_ParsedRanges ==
    (pop = "format" /\ pres.exc = "none") =>
        \A n \in 1..Len(pres.val.traits) :
            InRange(<<pres.val.traits[n].v.prevalence, pres.val.traits[n].v.intensity>>)

(***************************************************************************)
(* Properties of from_advanced_dna on generated strings.                   *)
(***************************************************************************)

\* C27: for every string s returned by generate_dna and w = from_advanced_dna(s),
\* decoding w.dna_string with the categorical decoder, WorldDNA(w.dna_string),
\* yields the same terrain, climate, resources, hazards and conflict as w.traits,
\* and w.dna_string has length 2 x (number of WorldDNA components).
C27_PairConsistent ==
    (pop = "from_advanced_dna" /\ gop # "idle") =>
        /\ pin = gdna
        /\ pres.exc = "none"
        /\ LET decoded == New("WorldDNA", pres.val.dna_string, <<>>)
           IN  /\ decoded.exc = "none"
               /\ \A component \in MappedTraits :
                     /\ Has(pres.val.traits, component)
                     /\ Get(decoded.val.traits, component) = Get(pres.val.traits, component)
        /\ Len(pres.val.dna_string) = 2 * NumComponents("WorldDNA")

(***************************************************************************)
(* Properties of the chain reactions: the thresholds after one pass.       *)
(***************************************************************************)

\* the vector written in TRAITS{}, under the keys of the generator
SerializedTraits(dna) ==
    LET entries == Entries(dna, "TRAITS{")
    IN  [n \in 1..Len(entries) |->
            [k |-> TraitKeys[n],
             v |-> <<DigitValue(CharAt(Split(entries[n], ":")[2], 1)),
                     DigitValue(CharAt(Split(entries[n], ":")[2], 2))>>]]

\* C28: one pass of chain reactions is a fixed point for the thresholds: for every
\* in-range vector v, check_thresholds(apply_chain_reactions(v, check_thresholds(v)))
\* = check_thresholds(v); hence in every generated string the names in THRESH{} are
\* exactly the thresholds satisfied by the values serialized in TRAITS{}.
C28_ThresholdFixedPoint ==
    /\ (gop = "chain" /\ gmet = check_thresholds(gprev)) =>
          check_thresholds(gtraits) = check_thresholds(gprev)
    /\ gop = "generate_dna" =>
          /\ Len(Entries(gdna, "TRAITS{")) = Len(TraitKeys)
          /\ \A n \in 1..Len(TraitKeys) :
                Split(Entries(gdna, "TRAITS{")[n], ":")[1] = Split(TraitKeys[n], ".")[2]
          /\ Range(Entries(gdna, "THRESH{")) = check_thresholds(SerializedTraits(gdna))
          /\ Len(Entries(gdna, "THRESH{")) = Cardinality(check_thresholds(SerializedTraits(gdna)))

\* a generated string with two thresholds met, whose reactions changed the vector
C28_Witness ==
    /\ gop = "generate_dna"
    /\ Cardinality(gmet) = 2
    /\ Len(Entries(gdna, "THRESH{")) = 2
    /\ gtraits # apply_bias(gprev, gbias)
    /\ SerializedTraits(gdna) = gtraits

(***************************************************************************)
(* Properties of the patterns: the trends of the vector itself.            *)
(***************************************************************************)

\* the pattern of trait in the result, "" when it has none
PatternOf(trait) == IF Has(gpatterns, trait) THEN Get(gpatterns, trait) ELSE ""

\* a value that meets one of the four base conditions
MeetsBase(value) ==
    \/ value[1] >= 7 /\ value[2] >= 4
    \/ value[1] <= 3 /\ value[2] <= 2
    \/ value[1] \in 4..6 /\ value[2] >= 4
    \/ value[1] \in 4..6 /\ value[2] <= 2

\* C29: with trends = identify_trends(v) for the same vector v, the override step of
\* identify_evolution_patterns changes nothing: a trait is ACCELERATING iff it is in
\* RISING (prevalence >= 7 and intensity >= 4), DECLINING iff it is in FALLING
\* (prevalence <= 3 and intensity <= 2), no trait is in both lists, and a trait
\* meeting none of the four base conditions (any trait of intensity 3) has no
\* pattern.
C29_OwnTrends ==
    (gop = "patterns" /\ gtrends = identify_trends(gtraits)) =>
        /\ gpatterns = identify_evolution_patterns(gtraits, NoTrends)
        /\ Range(gtrends.RISING) \cap Range(gtrends.FALLING) = {}
        /\ \A n \in 1..Len(gtraits) :
              LET trait == gtraits[n].k
                  value == gtraits[n].v
              IN  /\ PatternOf(trait) = "ACCELERATING" <=> trait \in Range(gtrends.RISING)
                  /\ trait \in Range(gtrends.RISING) <=> (value[1] >= 7 /\ value[2] >= 4)
                  /\ PatternOf(trait) = "DECLINING" <=> trait \in Range(gtrends.FALLING)
                  /\ trait \in Range(gtrends.FALLING) <=> (value[1] <= 3 /\ value[2] <= 2)
                  /\ ~MeetsBase(value) => PatternOf(trait) = ""
                  /\ value[2] = 3 => PatternOf(trait) = ""

\* a vector with a rising trait, a falling trait and a trait of intensity 3 that
\* gets no pattern, classified with its own trends
C29_Witness ==
    /\ gop = "patterns"
    /\ gtrends = identify_trends(gtraits)
    /\ gtrends.RISING # <<>>
    /\ gtrends.FALLING # <<>>
    /\ \E n \in 1..Len(gtraits) : gtraits[n].v = <<7, 3>> /\ PatternOf(gtraits[n].k) = ""
    /\ \E n \in 1..Len(gtraits) : PatternOf(gtraits[n].k) = "ACCELERATING"
    /\ \E n \in 1..Len(gtraits) : PatternOf(gtraits[n].k) = "DECLINING"

(***************************************************************************)
(* Properties of the serialized series.                                    *)
(***************************************************************************)

\* the scored value a two-digit token stands for
TokenValue(token) == <<DigitValue(CharAt(token, 1)), DigitValue(CharAt(token, 2))>>

\* the value token of the entry called name among the entries of TRAITS{}
TraitToken(trait_entries, name) ==
    Split(SelectSeq(trait_entries, LAMBDA e : Split(e, ":")[1] = name)[1], ":")[2]

\* the series of an EVO{} entry starts at first, and saturates as its pattern says
Saturates(evo_entry, first) ==
    LET pattern == Split(Split(evo_entry, ":")[2], "[")[1]
        series == Split(Split(Split(evo_entry, "[")[2], "]")[1], ",")
    IN  /\ Len(series) = 4
        /\ series[1] = first
        /\ pattern = "ACCELERATING" =>
              series[2] = "95" /\ series[3] = "95" /\ series[4] = "95"
        /\ pattern = "DECLINING" =>
              /\ \A m \in 1..3 :
                    /\ TokenValue(series[m + 1])[1] <= TokenValue(series[m])[1]
                    /\ TokenValue(series[m + 1])[2] <= TokenValue(series[m])[2]
              /\ \A m \in 2..4 : TokenValue(series[m])[2] = 1
              /\ series[3] = "11" /\ series[4] = "11"

\* C30: every EVO{} series of a generated string starts at the trait's TRAITS{}
\* value and saturates at a bound: for ACCELERATING elements 1, 2 and 3 are all
\* (9,5); for DECLINING every step is non-increasing in both dimensions, the
\* intensity is 1 from element 1 on, and elements 2 and 3 are both (1,1).
C30_SeriesSaturate ==
    gop = "generate_dna" =>
        \A trait_entries \in {Entries(gdna, "TRAITS{")}, evo_entries \in {Entries(gdna, "EVO{")} :
            \A n \in 1..Len(evo_entries) :
                Saturates(evo_entries[n], TraitToken(trait_entries, Split(evo_entries[n], ":")[1]))

\* a string with an ACCELERATING series from (7,4) and a DECLINING series from (3,2)
C30_Witness ==
    /\ gop = "generate_dna"
    /\ Contains(gdna, "climate:ACCELERATING[74,95,95,95]")
    /\ Contains(gdna, "conflict:DECLINING[32,21,11,11]")

=============================================================================
